---- MODULE Spec2Model ----
(***************************************************************************)
(* Model of the detection transport of Ocean_Pollution_Mapping_Forecasting *)
(*   sender   : RaspberryPi/communications.py (AT layer, MQTT publish,     *)
(*              imgToChunks, mqtt_sendimg)                                 *)
(*   receiver : AWS/pullS3.py (scanner and dedup/aggregation in pull())    *)
(* Text is modelled as a sequence of one-character strings, bytes as       *)
(* naturals 0..255, a datetime as [date, secs, us].                        *)
(***************************************************************************)
EXTENDS Integers, Sequences, FiniteSets, TLC

VARIABLES
    \* ---- receiver (pullS3 instance and the S3 bucket) ----
    bucket,      \* the object listing of the bucket: sequence of [body, lm]
    files,       \* self.files
    mostRecent,  \* self.mostRecent
    map_data,    \* self.map_data rows
    hourly,      \* self.hourly rows
    assets,      \* keys of the images saved under ./assets
    status,      \* how the last pull() ended
    pulled,      \* pull() calls since the bucket last changed (counted up to 2)
    images,      \* the candidate list of the last pull()
    thr,         \* the pull() invocations in progress, statement by statement
    owner,       \* for every object of the bucket: the Frame it was published in
    \* ---- sender (one run of imgToChunks + mqtt_sendimg) ----
    spc,         \* position of the sender in mqtt_sendimg / mqtt_pub / AT
    byte_arr,    \* argument of imgToChunks
    chunk_size,  \* argument of imgToChunks
    headers,     \* argument of mqtt_sendimg
    msgs,        \* result of imgToChunks, argument of mqtt_sendimg
    mi,          \* number of chunks of msgs already published
    cur,         \* the publish in progress: [payload, raw]
    wire,        \* everything written to the serial channel, in order
    inflight,    \* number of AT transactions written and not yet read back
    pubs,        \* payloads of the publishes whose last transaction completed
    lost,        \* some publish was not stored in the bucket
    nsent,       \* Frames sent so far (SpecStore)
    \* ---- sender: the serial channel and the AT calls ----
    rx,          \* input buffer of the serial port: chunks received, not yet read,
                 \* each with the number of writes made when it arrived
    rets,        \* what the AT calls of the running session function returned
    w0           \* Len(wire) when the running session function was entered

rvars == <<bucket, files, mostRecent, map_data, hourly, assets, status, pulled, images, nsent,
           thr, owner>>
atvars == <<rx, rets, w0>>
svars == <<spc, byte_arr, chunk_size, headers, msgs, mi, cur, wire, inflight, pubs, lost,
           rx, rets, w0>>
vars == <<bucket, files, mostRecent, map_data, hourly, assets, status, pulled, images, nsent,
          thr, owner,
          spc, byte_arr, chunk_size, headers, msgs, mi, cur, wire, inflight, pubs, lost,
          rx, rets, w0>>

----------------------------------------------------------------------------
(* Bounds of the model *)

MaxObjs == 4        \* objects in the bucket (Spec)
MaxFrames == 2      \* Frames sent (SpecStore)
MaxPayload == 3     \* bytes of a payload (sender specification)
MaxChunk == 3       \* largest chunk size tried (sender specification)
MaxRx == 1          \* chunks waiting in the serial input buffer

----------------------------------------------------------------------------
(* Text *)

Min(a, b) == IF a < b THEN a ELSE b

RECURSIVE Concat(_)
Concat(ss) == IF ss = <<>> THEN <<>> ELSE Head(ss) \o Concat(Tail(ss))

\* pat in s
Contains(s, pat) ==
    \/ pat = <<>>
    \/ \E i \in 1..(Len(s) - Len(pat) + 1) :
          s[i] = pat[1] /\ SubSeq(s, i, i + Len(pat) - 1) = pat

\* s.replace(c, "") for every c in cs
Remove(s, cs) == SelectSeq(s, LAMBDA c : c \notin cs)

\* s.split(sep)
RECURSIVE SplitFrom(_, _, _)
SplitFrom(s, sep, acc) ==
    IF s = <<>> THEN <<acc>>
    ELSE IF Head(s) = sep THEN <<acc>> \o SplitFrom(Tail(s), sep, <<>>)
    ELSE SplitFrom(Tail(s), sep, Append(acc, Head(s)))

Split(s, sep) == SplitFrom(s, sep, <<>>)

ImageStartStr == <<"I","m","a","g","e"," ","S","t","a","r","t">>
BraceImageStart == <<"{">> \o ImageStartStr
ImageStartOnly == BraceImageStart \o <<"}">>
ImageEnd == <<"{","I","m","a","g","e"," ","E","n","d","}">>

----------------------------------------------------------------------------
(* binascii *)

HexDigits == <<"0","1","2","3","4","5","6","7","8","9","a","b","c","d","e","f">>
HexUpper == <<"0","1","2","3","4","5","6","7","8","9","A","B","C","D","E","F">>

IsHexChar(c) == \E i \in 1..16 : HexDigits[i] = c \/ HexUpper[i] = c
HexVal(c) == (CHOOSE i \in 1..16 : HexDigits[i] = c \/ HexUpper[i] = c) - 1

\* hexlify variant: one digit for a byte below 16 (format '%x' per byte)
RECURSIVE hexlifyNoPad(_)
hexlifyNoPad(bs) ==
    IF bs = <<>> THEN <<>>
    ELSE (IF Head(bs) < 16 THEN <<>> ELSE <<HexDigits[(Head(bs) \div 16) + 1]>>)
         \o <<HexDigits[(Head(bs) % 16) + 1]>> \o hexlifyNoPad(Tail(bs))

\* binascii.hexlify: two lower-case digits per byte
RECURSIVE hexlify(_)
hexlify(bs) ==
    IF bs = <<>> THEN <<>>
    ELSE <<HexDigits[(Head(bs) \div 16) + 1], HexDigits[(Head(bs) % 16) + 1]>>
         \o hexlify(Tail(bs))

\* binascii.unhexlify raises on an odd length or a non-hex character
UnhexOK(s) == Len(s) % 2 = 0 /\ \A i \in 1..Len(s) : IsHexChar(s[i])

unhexlify(s) == [k \in 1..(Len(s) \div 2) |-> 16 * HexVal(s[2 * k - 1]) + HexVal(s[2 * k])]

----------------------------------------------------------------------------
(* Sender: chunking and framing *)

\* imgToChunks variant: range(0, len - len % x, x), the short tail is lost
imgToChunksDropTail(b, x) ==
    [k \in 1..(Len(b) \div x) |-> SubSeq(b, (k - 1) * x + 1, k * x)]

\* len(range(0, n, x))
NumChunks(n, x) == (n + x - 1) \div x

\* [byte_arr[i:i + x] for i in range(0, len(byte_arr), x)]
imgToChunks(b, x) ==
    [k \in 1..NumChunks(Len(b), x) |-> SubSeq(b, (k - 1) * x + 1, Min(k * x, Len(b)))]

\* Python values a metadata list may hold: a number, a string, a flat list
Num(n) == [t |-> "num", v |-> n]
Str(cs) == [t |-> "str", s |-> cs]
List(xs) == [t |-> "list", items |-> xs]

DigitChars == <<"0","1","2","3","4","5","6","7","8","9">>

\* str(n) of a natural number
RECURSIVE DecStr(_)
DecStr(n) == IF n < 10 THEN <<DigitChars[n + 1]>>
             ELSE DecStr(n \div 10) \o <<DigitChars[(n % 10) + 1]>>

\* repr(x) of a list element
repr(x) == IF x.t = "num" THEN DecStr(x.v) ELSE <<"'">> \o x.s \o <<"'">>

RECURSIVE JoinRepr(_)
JoinRepr(xs) ==
    IF xs = <<>> THEN <<>>
    ELSE IF Len(xs) = 1 THEN repr(xs[1])
    ELSE repr(xs[1]) \o <<",", " ">> \o JoinRepr(Tail(xs))

\* str(metadata)
str(x) == IF x.t = "num" THEN DecStr(x.v)
          ELSE IF x.t = "str" THEN x.s
          ELSE <<"[">> \o JoinRepr(x.items) \o <<"]">>

\* the headers argument: None (absent) or a list
NoHeaders == [present |-> FALSE, items |-> <<>>]
Headers(xs) == [present |-> TRUE, items |-> xs]

\* "if headers:" is false for None and for the empty list
Truthy(hs) == hs.present /\ hs.items # <<>>

\* for metadata in headers: header += "," + str(metadata)
RECURSIVE JoinHeaders(_)
JoinHeaders(xs) ==
    IF xs = <<>> THEN <<>> ELSE <<",">> \o str(Head(xs)) \o JoinHeaders(Tail(xs))

\* StartToken variant: "{Image Start" + "," + ",".join(...) + "}"
StartTokenAlwaysComma(hs) ==
    BraceImageStart \o <<",">> \o
    (IF hs.items = <<>> THEN <<>> ELSE Tail(JoinHeaders(hs.items))) \o <<"}">>

\* the Start token built by lines 216-220
StartToken(hs) ==
    BraceImageStart \o (IF Truthy(hs) THEN JoinHeaders(hs.items) ELSE <<>>) \o <<"}">>

\* the payloads mqtt_sendimg hands to mqtt_pub, in order
SendImgPubs(ms, hs) ==
    <<StartToken(hs)>> \o [k \in 1..Len(ms) |-> hexlify(ms[k])] \o <<ImageEnd>>

----------------------------------------------------------------------------
(* Receiver: time *)

\* datetimeToString: date, hour, minute and second of str(dt); the fraction
\* of a second is cut off
datetimeToString(dt) ==
    <<dt.date, dt.secs \div 3600, (dt.secs % 3600) \div 60, dt.secs % 60>>

\* roundTime variant: line 34 without "+ roundTo / 2"
roundTimeDown(dt, roundTo) ==
    LET seconds == dt.secs
        rounding == (seconds \div roundTo) * roundTo
    IN  [date |-> dt.date + (rounding \div 86400), secs |-> rounding % 86400, us |-> 0]

\* roundTime(dt, roundTo)
roundTime(dt, roundTo) ==
    LET seconds == dt.secs
        rounding == ((2 * seconds + roundTo) \div (2 * roundTo)) * roundTo
    IN  [date |-> dt.date + (rounding \div 86400), secs |-> rounding % 86400, us |-> 0]

----------------------------------------------------------------------------
(* Receiver: the scanner of pull() *)

\* metadata = None; an empty list stands for it (both are falsy, and the code
\* tests metadata only for truth)
None == <<>>

\* ParseMetadata variant: the brackets of str(envs) are kept
ParseMetadataKeepBrackets(body) == Tail(Split(Remove(body, {"}"}), ","))

\* body.replace('}', "").replace('[', "").replace(']', "").split(',')[1:]
ParseMetadata(body) == Tail(Split(Remove(body, {"}", "[", "]"}), ","))

\* the "if len(metadata) < 10" guard
MinFields == 10

\* images = [], parsing = False, metadata = None; arr is unbound until a Start
ScanInit == [parsing |-> FALSE, arr |-> <<>>, metadata |-> None,
             images |-> <<>>, err |-> FALSE]

\* ScanStep variant: line 118 (arr = bytearray()) left out
ScanStepKeepArr(st, obj) ==
    IF st.err THEN st
    ELSE IF Contains(obj.body, ImageStartStr) THEN
        LET md == ParseMetadata(obj.body)
        IN  [st EXCEPT !.parsing = Len(md) >= MinFields, !.metadata = md]
    ELSE IF st.parsing /\ obj.body # ImageStartOnly THEN
        IF obj.body = ImageEnd THEN
            [st EXCEPT !.images = Append(@, [arr |-> st.arr, lm |-> obj.lm,
                                            metadata |-> st.metadata]),
                       !.metadata = None, !.parsing = FALSE]
        ELSE IF UnhexOK(obj.body) THEN [st EXCEPT !.arr = @ \o unhexlify(obj.body)]
        ELSE [st EXCEPT !.err = TRUE]
    ELSE st

\* ScanStep variant: lines 121-122 (the 10-field guard) left out
ScanStepNoGuard(st, obj) ==
    IF st.err THEN st
    ELSE IF Contains(obj.body, ImageStartStr) THEN
        [st EXCEPT !.parsing = TRUE, !.arr = <<>>, !.metadata = ParseMetadata(obj.body)]
    ELSE IF st.parsing /\ obj.body # ImageStartOnly THEN
        IF obj.body = ImageEnd THEN
            [st EXCEPT !.images = Append(@, [arr |-> st.arr, lm |-> obj.lm,
                                            metadata |-> st.metadata]),
                       !.metadata = None, !.parsing = FALSE]
        ELSE IF UnhexOK(obj.body) THEN [st EXCEPT !.arr = @ \o unhexlify(obj.body)]
        ELSE [st EXCEPT !.err = TRUE]
    ELSE st

\* ScanStep variant: the End test of line 125 outside "if parsing"
ScanStepEndAnywhere(st, obj) ==
    IF st.err THEN st
    ELSE IF Contains(obj.body, ImageStartStr) THEN
        LET md == ParseMetadata(obj.body)
        IN  [st EXCEPT !.parsing = Len(md) >= MinFields, !.arr = <<>>, !.metadata = md]
    ELSE IF obj.body = ImageEnd THEN
        [st EXCEPT !.images = Append(@, [arr |-> st.arr, lm |-> obj.lm,
                                        metadata |-> st.metadata]),
                   !.metadata = None, !.parsing = FALSE]
    ELSE IF st.parsing THEN
        IF UnhexOK(obj.body) THEN [st EXCEPT !.arr = @ \o unhexlify(obj.body)]
        ELSE [st EXCEPT !.err = TRUE]
    ELSE st

\* one iteration of "for obj in ...objects.all()": the scanner's transition.
\* err: binascii.unhexlify raised, which ends pull() before it touches self
ScanStep(st, obj) ==
    IF st.err THEN st
    ELSE IF Contains(obj.body, ImageStartStr) THEN
        LET md == ParseMetadata(obj.body)
        IN  [st EXCEPT !.parsing = Len(md) >= MinFields, !.arr = <<>>, !.metadata = md]
    ELSE IF st.parsing /\ obj.body # ImageStartOnly THEN
        IF obj.body = ImageEnd THEN
            [st EXCEPT !.images = Append(@, [arr |-> st.arr, lm |-> obj.lm,
                                            metadata |-> st.metadata]),
                       !.metadata = None, !.parsing = FALSE]
        ELSE IF UnhexOK(obj.body) THEN [st EXCEPT !.arr = @ \o unhexlify(obj.body)]
        ELSE [st EXCEPT !.err = TRUE]
    ELSE st

\* the scanner after the first k objects of a listing
RECURSIVE ScanPrefix(_, _)
ScanPrefix(objs, k) ==
    IF k = 0 THEN ScanInit ELSE ScanStep(ScanPrefix(objs, k - 1), objs[k])

\* the whole loop of lines 115-130
Scan(objs) == ScanPrefix(objs, Len(objs))

----------------------------------------------------------------------------
(* Receiver: dedup and aggregation of pull() *)

IsDigit(c) == \E i \in 1..10 : DigitChars[i] = c
DigitVal(c) == (CHOOSE i \in 1..10 : DigitChars[i] = c) - 1

\* s.strip(): float() ignores blanks around the number
RECURSIVE LStrip(_)
LStrip(s) == IF s # <<>> /\ Head(s) = " " THEN LStrip(Tail(s)) ELSE s
RECURSIVE RStrip(_)
RStrip(s) == IF s # <<>> /\ s[Len(s)] = " " THEN RStrip(SubSeq(s, 1, Len(s) - 1)) ELSE s
Strip(s) == RStrip(LStrip(s))

\* float(s) on the texts of the model: unsigned decimal integers; anything
\* else raises ValueError
FloatOK(s) == Strip(s) # <<>> /\ \A i \in 1..Len(Strip(s)) : IsDigit(Strip(s)[i])

RECURSIVE DecVal(_)
DecVal(s) == IF s = <<>> THEN 0 ELSE 10 * DecVal(SubSeq(s, 1, Len(s) - 1)) + DigitVal(s[Len(s)])

float(s) == DecVal(Strip(s))

\* Image.open(BytesIO(arr)) identifies the format from the leading bytes;
\* here a byte string is an image when it starts with 0xFF (the JPEG marker)
ImageOpenOK(arr) == Len(arr) >= 1 /\ arr[1] = 255

\* the metadata fields the appended row reads
UsedFields == {1, 2, 3, 5, 6, 7, 8, 9, 10}

RowOK(md) == \A i \in UsedFields : i <= Len(md) /\ FloatOK(md[i])

\* Row variant: the sensor values are read one field early, the placeholder
\* among them
RowPlaceholderRead(img) ==
    [clusters |-> float(img.metadata[3]), Date |-> datetimeToString(img.lm),
     lat |-> float(img.metadata[1]), lon |-> float(img.metadata[2]),
     temp |-> float(img.metadata[4]), humidity |-> float(img.metadata[5]),
     pressure |-> float(img.metadata[6]), pitch |-> float(img.metadata[7]),
     roll |-> float(img.metadata[8]), yaw |-> float(img.metadata[9]),
     size |-> float(img.metadata[3]) + 1]

\* the row appended to map_data (lines 146-151)
Row(img) ==
    [clusters |-> float(img.metadata[3]), Date |-> datetimeToString(img.lm),
     lat |-> float(img.metadata[1]), lon |-> float(img.metadata[2]),
     temp |-> float(img.metadata[5]), humidity |-> float(img.metadata[6]),
     pressure |-> float(img.metadata[7]), pitch |-> float(img.metadata[8]),
     roll |-> float(img.metadata[9]), yaw |-> float(img.metadata[10]),
     size |-> float(img.metadata[3]) + 1]

\* getIndexes(self.hourly, roundDate)[0][0]: the first row holding the value
getIndexes(h, value) == CHOOSE i \in 1..Len(h) :
    h[i].Date = value /\ \A j \in 1..(i - 1) : h[j].Date # value

\* roundDate in self.hourly.values
InHourly(h, value) == \E i \in 1..Len(h) : h[i].Date = value

\* BumpHourly variant: line 157 runs only when the bucket was there already
BumpHourlyElse(h, roundDate) ==
    IF ~InHourly(h, roundDate)
    THEN Append(h, [Date |-> roundDate, Count |-> 0])
    ELSE [h EXCEPT ![getIndexes(h, roundDate)].Count = @ + 1]

\* lines 153-157
BumpHourly(h, roundDate) ==
    LET h1 == IF ~InHourly(h, roundDate)
              THEN Append(h, [Date |-> roundDate, Count |-> 0]) ELSE h
        loc == getIndexes(h1, roundDate)
    IN  [h1 EXCEPT ![loc].Count = @ + 1]

\* the part of self that the loop of lines 140-159 reads and writes
StoreOf(f, m, h, a) == [files |-> f, map_data |-> m, hourly |-> h, assets |-> a,
                        err |-> FALSE]

\* InFiles variant: compares with the newest processed key only
InFilesLastOnly(f, key) == f # <<>> /\ f[Len(f)] = key

\* datetimeToString(img[1]) in self.files
InFiles(f, key) == \E i \in 1..Len(f) : f[i] = key

\* ProcessImg variant: line 152 (self.files.append) left out
ProcessImgNoAppend(st, img) ==
    LET key == datetimeToString(img.lm) IN
    IF st.err \/ InFiles(st.files, key) THEN st
    ELSE IF ~ImageOpenOK(img.arr) THEN [st EXCEPT !.err = TRUE]
    ELSE IF img.metadata # <<>> /\ ~RowOK(img.metadata)
         THEN [st EXCEPT !.assets = @ \cup {key}, !.err = TRUE]
    ELSE [st EXCEPT
            !.assets = @ \cup {key},
            !.map_data = IF img.metadata # <<>> THEN Append(@, Row(img)) ELSE @,
            !.hourly = BumpHourly(@, roundTime(img.lm, 3600))]

\* ProcessImg variant: the frame returned by map_data.append is not assigned
ProcessImgRowDropped(st, img) ==
    LET key == datetimeToString(img.lm) IN
    IF st.err \/ InFiles(st.files, key) THEN st
    ELSE IF ~ImageOpenOK(img.arr) THEN [st EXCEPT !.err = TRUE]
    ELSE IF img.metadata # <<>> /\ ~RowOK(img.metadata)
         THEN [st EXCEPT !.assets = @ \cup {key}, !.err = TRUE]
    ELSE [st EXCEPT
            !.assets = @ \cup {key},
            !.files = Append(@, key),
            !.hourly = BumpHourly(@, roundTime(img.lm, 3600))]

\* one iteration of "for img in images" (lines 140-159). err: Image.open or
\* float raised, which ends pull(); a raising float leaves the saved image
ProcessImg(st, img) ==
    LET key == datetimeToString(img.lm) IN
    IF st.err \/ InFiles(st.files, key) THEN st
    ELSE IF ~ImageOpenOK(img.arr) THEN [st EXCEPT !.err = TRUE]
    ELSE IF img.metadata # <<>> /\ ~RowOK(img.metadata)
         THEN [st EXCEPT !.assets = @ \cup {key}, !.err = TRUE]
    ELSE [st EXCEPT
            !.assets = @ \cup {key},
            !.map_data = IF img.metadata # <<>> THEN Append(@, Row(img)) ELSE @,
            !.files = Append(@, key),
            !.hourly = BumpHourly(@, roundTime(img.lm, 3600))]

RECURSIVE ProcessImgs(_, _, _)
ProcessImgs(st, imgs, k) ==
    IF k = 0 THEN st ELSE ProcessImg(ProcessImgs(st, imgs, k - 1), imgs[k])

\* PullEnd variant: line 161 runs also when the loop raised
PullEndPointerAlways(sc, st0, st, mr) ==
    IF sc.err THEN [store |-> st0, mostRecent |-> mr,
                    status |-> "scan-error", images |-> <<>>]
    ELSE IF sc.images = <<>> THEN [store |-> st, mostRecent |-> mr,
                                   status |-> "no-images", images |-> sc.images]
    ELSE [store |-> st, status |-> IF st.err THEN "img-error" ELSE "ok",
          images |-> sc.images,
          mostRecent |-> datetimeToString(sc.images[Len(sc.images)].lm)]

\* PullEnd variant: the candidates are those whose key was not processed
\* before the pull
PullEndNewOnly(sc, st0, st, mr) ==
    IF sc.err THEN [store |-> st0, mostRecent |-> mr,
                    status |-> "scan-error", images |-> <<>>]
    ELSE IF st.err THEN [store |-> st, mostRecent |-> mr,
                         status |-> "img-error", images |-> sc.images]
    ELSE IF sc.images = <<>> THEN [store |-> st, mostRecent |-> mr,
                                   status |-> "no-images", images |-> sc.images]
    ELSE [store |-> st, status |-> "ok",
          images |-> SelectSeq(sc.images,
                        LAMBDA c : ~InFiles(st0.files, datetimeToString(c.lm))),
          mostRecent |-> datetimeToString(sc.images[Len(sc.images)].lm)]

\* pull(): how it ends and what it leaves in self.
\*  "scan-error": unhexlify raised in the scanner
\*  "img-error" : Image.open or float raised in the loop
\*  "no-images" : newest is None at line 161 (TypeError)
\*  "ok"        : line 161 stored the key of the last candidate
PullEnd(sc, st0, st, mr) ==
    IF sc.err THEN [store |-> st0, mostRecent |-> mr,
                    status |-> "scan-error", images |-> <<>>]
    ELSE IF st.err THEN [store |-> st, mostRecent |-> mr,
                         status |-> "img-error", images |-> sc.images]
    ELSE IF sc.images = <<>> THEN [store |-> st, mostRecent |-> mr,
                                   status |-> "no-images", images |-> sc.images]
    ELSE [store |-> st, status |-> "ok", images |-> sc.images,
          mostRecent |-> datetimeToString(sc.images[Len(sc.images)].lm)]

\* lines 133-159: the loop over the candidates of the scan
PullLoop(sc, st0, mr) == PullEnd(sc, st0, ProcessImgs(st0, sc.images, Len(sc.images)), mr)

PullResult(objs, f, m, h, a, mr) == PullLoop(Scan(objs), StoreOf(f, m, h, a), mr)

----------------------------------------------------------------------------
(* Inputs of the model *)

\* LastModified values: T1 and T2 fall in the same second, T3 one second
\* later, on the half hour
T1 == [date |-> 1, secs |-> 5399, us |-> 0]
T2 == [date |-> 1, secs |-> 5399, us |-> 500000]
T3 == [date |-> 1, secs |-> 5400, us |-> 0]
TimeSet == {T1, T2, T3}

\* metadata lists as the sender passes them
NumList(ns) == [k \in 1..Len(ns) |-> Num(ns[k])]
FieldsA == Headers(NumList(<<1, 2, 3, 0, 5, 6, 7, 8, 9, 4>>))
FieldsB == Headers(NumList(<<2, 2, 4, 0, 5, 6, 7, 8, 9, 4>>))
FieldsX == Headers([NumList(<<1, 2, 3, 0, 5, 6, 7, 8, 9, 4>>) EXCEPT ![5] = Str(<<"x">>)])
FieldsShort == Headers(NumList(<<1, 2, 3>>))
FieldsLong == Headers(NumList(<<1, 2, 3, 0, 5, 6, 7, 8, 9, 4, 12>>))

\* [lat, lon, num, envs] with envs = [time, temp, humidity, pressure, pitch,
\* roll, yaw] as data() returns it
MainHeaders == Headers(<<Num(1), Num(2), Num(3),
                         List(<<Str(<<"t">>), Num(5), Num(6), Num(7), Num(8), Num(9),
                                Num(4)>>)>>)

Junk == <<"{","T","E","S","T","}">>

\* bodies of the objects that arrive one by one (receiver specification)
Bodies == {StartToken(FieldsA), StartToken(FieldsB), StartToken(FieldsShort),
           hexlify(<<255>>), hexlify(<<10>>), Junk, ImageEnd}

\* LastModified of an arriving object: an End object arrives after the rest
StampOf(b) == IF b = ImageEnd THEN T3 ELSE T1

\* the sender before anything was sent
SenderIdle == [spc |-> "idle", byte_arr |-> <<>>, chunk_size |-> 1, headers |-> NoHeaders,
               msgs |-> <<>>, mi |-> 0,
               cur |-> [payload |-> <<>>, raw |-> FALSE, stage |-> "none"],
               wire |-> <<>>, inflight |-> 0, pubs |-> <<>>, lost |-> FALSE,
               rx |-> <<>>, rets |-> <<>>, w0 |-> 0]

SenderIs(r) ==
    /\ spc = r.spc /\ byte_arr = r.byte_arr /\ chunk_size = r.chunk_size
    /\ headers = r.headers /\ msgs = r.msgs /\ mi = r.mi /\ cur = r.cur
    /\ wire = r.wire /\ inflight = r.inflight /\ pubs = r.pubs /\ lost = r.lost
    /\ rx = r.rx /\ rets = r.rets /\ w0 = r.w0

\* which Frame an object of the bucket was published in (0: not known), the
\* payload of that Frame, and whether every publish of the Frame was stored
OwnedBy(n, b, all) == [frame |-> n, b |-> b, complete |-> all]
Unowned == OwnedBy(0, <<>>, FALSE)

\* the callers of pull(): two requests of the interval callback of app.py,
\* each served by a thread of its own
Threads == {1, 2}

\* the locals of a pull() invocation that is not running
NotRunning == [pc |-> "idle", imgs |-> <<>>, i |-> 0, tmp |-> <<>>, loc |-> 0,
               cnt |-> 0, stale |-> FALSE]

\* no pull() in progress, none made, no two ever at once
NoPulls == [th |-> [t \in Threads |-> NotRunning], calls |-> 0, raced |-> FALSE]

\* pullS3.__init__, before any pull()
NewInstance ==
    /\ files = <<>>
    /\ mostRecent = None
    /\ map_data = <<>>
    /\ hourly = <<>>
    /\ assets = {}
    /\ status = "none"
    /\ pulled = 0
    /\ images = <<>>
    /\ nsent = 0
    /\ thr = NoPulls

\* pullS3.__init__, and an empty bucket
ReceiverInit ==
    /\ bucket = <<>>
    /\ owner = <<>>
    /\ NewInstance

store == <<files, mostRecent, map_data, hourly, assets>>

----------------------------------------------------------------------------
(* Receiver actions *)

\* pullS3.flushBucket
flushBucket ==
    /\ bucket # <<>>
    /\ bucket' = <<>>
    /\ owner' = <<>>
    /\ pulled' = 0
    /\ UNCHANGED <<store, status, images, nsent, thr>>
    /\ UNCHANGED svars

\* pullS3.pull
pull ==
    \E r \in {PullResult(bucket, files, map_data, hourly, assets, mostRecent)} :
    /\ files' = r.store.files
    /\ map_data' = r.store.map_data
    /\ hourly' = r.store.hourly
    /\ assets' = r.store.assets
    /\ mostRecent' = r.mostRecent
    /\ status' = r.status
    /\ images' = r.images
    /\ pulled' = Min(pulled + 1, 2)
    /\ UNCHANGED <<bucket, nsent, thr, owner>>
    /\ UNCHANGED svars

----------------------------------------------------------------------------
(* Specification Spec: objects arrive one by one, in any order; pull at will *)

Init == ReceiverInit /\ SenderIs(SenderIdle)

\* one object arrives in the bucket
PutObject ==
    /\ Len(bucket) < MaxObjs
    /\ \E b \in Bodies : bucket' = Append(bucket, [body |-> b, lm |-> StampOf(b)])
    /\ owner' = Append(owner, Unowned)
    /\ pulled' = 0
    /\ UNCHANGED <<store, status, images, nsent, thr>>
    /\ UNCHANGED svars

Next == PutObject \/ pull

Spec == Init /\ [][Next]_vars

----------------------------------------------------------------------------
(* Specification SpecStore: whole Frames arrive, as imgToChunks and          *)
(* mqtt_sendimg publish them, every publish stored as one object             *)

\* chunk_size=5120, the default of imgToChunks
DefaultChunkSize == 5120

\* payload and metadata of the Frames sent: <<255>> opens as an image,
\* <<10>> does not
FrameInputs == {[b |-> <<255>>, hs |-> FieldsA], [b |-> <<255>>, hs |-> FieldsB],
                [b |-> <<255>>, hs |-> FieldsX], [b |-> <<255>>, hs |-> FieldsShort],
                [b |-> <<10>>, hs |-> FieldsA], [b |-> <<255>>, hs |-> FieldsLong]}

\* the objects one Frame leaves in the bucket; the store stamps them
FrameObjects(b, hs, t) ==
    LET toks == SendImgPubs(imgToChunks(b, DefaultChunkSize), hs)
    IN  [k \in 1..Len(toks) |-> [body |-> toks[k], lm |-> t]]

SendFrame ==
    /\ nsent < MaxFrames
    /\ \E f \in FrameInputs : \E t \in TimeSet :
          /\ bucket' = bucket \o FrameObjects(f.b, f.hs, t)
          /\ owner' = owner \o [k \in 1..Len(FrameObjects(f.b, f.hs, t)) |->
                                    OwnedBy(nsent + 1, f.b, TRUE)]
    /\ nsent' = nsent + 1
    /\ pulled' = 0
    /\ UNCHANGED <<store, status, images, thr>>
    /\ UNCHANGED svars

NextStore == SendFrame \/ flushBucket \/ pull

SpecStore == Init /\ [][NextStore]_vars

----------------------------------------------------------------------------
(* Specification SpecSend: one imgToChunks + mqtt_sendimg run, one AT        *)
(* transaction at a time, every completed publish stored or lost             *)

\* topic="aws/things/simcom7600_device01/", the default of mqtt_pub
Topic == <<"a","w","s","/","t","h","i","n","g","s","/","s","i","m","c","o","m",
           "7","6","0","0","_","d","e","v","i","c","e","0","1","/">>

ByteVals == {255, 10}

RECURSIVE SeqsUpTo(_, _)
SeqsUpTo(S, n) ==
    IF n = 0 THEN {<<>>}
    ELSE LET shorter == SeqsUpTo(S, n - 1)
         IN  shorter \cup {Append(q, x) : q \in {r \in shorter : Len(r) = n - 1}, x \in S}

SendPayloads == SeqsUpTo(ByteVals, MaxPayload)
SendHeaders == {NoHeaders, Headers(<<>>), FieldsShort, FieldsA, FieldsLong, MainHeaders}

InitSend ==
    /\ ReceiverInit
    /\ spc = "start"
    /\ byte_arr \in SendPayloads
    /\ chunk_size \in 1..MaxChunk
    /\ headers \in SendHeaders
    /\ msgs = <<>> /\ mi = 0
    /\ cur = [payload |-> <<>>, raw |-> FALSE, stage |-> "none"]
    /\ wire = <<>> /\ inflight = 0 /\ pubs = <<>> /\ lost = FALSE
    /\ rx = <<>> /\ rets = <<>> /\ w0 = 0

\* msgs = comm.imgToChunks(img)
CallImgToChunks ==
    /\ spc = "start"
    /\ msgs' = imgToChunks(byte_arr, chunk_size)
    /\ spc' = "sendimg"
    /\ UNCHANGED <<byte_arr, chunk_size, headers, mi, cur, wire, inflight, pubs, lost>>
    /\ UNCHANGED atvars
    /\ UNCHANGED rvars

\* mqtt_sendimg, lines 216-221: build the header and call mqtt_pub(header)
SendImgStart ==
    /\ spc = "sendimg"
    /\ cur' = [payload |-> StartToken(headers), raw |-> FALSE, stage |-> "header"]
    /\ spc' = "topic_at"
    /\ mi' = 0
    /\ rets' = <<>> /\ w0' = Len(wire)
    /\ UNCHANGED <<byte_arr, chunk_size, headers, msgs, wire, inflight, pubs, lost, rx>>
    /\ UNCHANGED rvars

\* message="SIMCom Connected!", the default of mqtt_conn
WillMessage == <<"S","I","M","C","o","m"," ","C","o","n","n","e","c","t","e","d","!">>

\* the texts AT is asked to find in the response
BackPrompt == <<">">>
BackOK == <<"O","K">>
BackStart == <<"+","C","M","Q","T","T","S","T","A","R","T",":"," ","0">>
BackConnect == <<"+","C","M","Q","T","T","C","O","N","N","E","C","T",":"," ","0",",","0">>
BackPub == <<"+","C","M","Q","T","T","P","U","B",":"," ","0",",","0">>

\* PayloadLen variant: announces the bytes of the chunk before hexlify
PayloadLenOfChunk(c) == IF c.raw THEN Len(c.payload) \div 2 ELSE Len(c.payload)

\* len(payload) of line 189: characters of a str, bytes of a bytes object
PayloadLen(c) == Len(c.payload)

\* the AT calls of init_checks, ssl_config, mqtt_conn, mqtt_disc, mqtt_sub and
\* mqtt_pub: the position
\* of the call, the position while AT sleeps, the position after AT returned,
\* the command, the length it announces and the response it expects
ATCalls(c) == {
    [at |-> "chk1_at", wait |-> "chk1_wait", after |-> "chk2_at",
     name |-> "CPIN?", len |-> 0, back |-> BackOK],
    [at |-> "chk2_at", wait |-> "chk2_wait", after |-> "chk3_at",
     name |-> "CGMM", len |-> 0, back |-> BackOK],
    [at |-> "chk3_at", wait |-> "chk3_wait", after |-> "chk4_at",
     name |-> "CGMR", len |-> 0, back |-> BackOK],
    [at |-> "chk4_at", wait |-> "chk4_wait", after |-> "chk5_at",
     name |-> "GSN", len |-> 0, back |-> BackOK],
    [at |-> "chk5_at", wait |-> "chk5_wait", after |-> "chk6_at",
     name |-> "COPS?", len |-> 0, back |-> BackOK],
    [at |-> "chk6_at", wait |-> "chk6_wait", after |-> "chk7_at",
     name |-> "CSQ", len |-> 0, back |-> BackOK],
    [at |-> "chk7_at", wait |-> "chk7_wait", after |-> "chk8_at",
     name |-> "CPSI?", len |-> 0, back |-> BackOK],
    [at |-> "chk8_at", wait |-> "chk8_wait", after |-> "chk9_at",
     name |-> "CGREG", len |-> 0, back |-> BackOK],
    [at |-> "chk9_at", wait |-> "chk9_wait", after |-> "chk10_at",
     name |-> "CGACT?", len |-> 0, back |-> BackOK],
    [at |-> "chk10_at", wait |-> "chk10_wait", after |-> "checked",
     name |-> "CGPADDR", len |-> 0, back |-> BackOK],
    [at |-> "ssl1_at", wait |-> "ssl1_wait", after |-> "ssl2_at",
     name |-> "CCERTLIST", len |-> 0, back |-> BackOK],
    [at |-> "ssl2_at", wait |-> "ssl2_wait", after |-> "ssl3_at",
     name |-> "CSSLCFG sslversion", len |-> 0, back |-> BackOK],
    [at |-> "ssl3_at", wait |-> "ssl3_wait", after |-> "ssl4_at",
     name |-> "CSSLCFG authmode", len |-> 0, back |-> BackOK],
    [at |-> "ssl4_at", wait |-> "ssl4_wait", after |-> "ssl5_at",
     name |-> "CSSLCFG cacert", len |-> 0, back |-> BackOK],
    [at |-> "ssl5_at", wait |-> "ssl5_wait", after |-> "ssl6_at",
     name |-> "CSSLCFG clientcert", len |-> 0, back |-> BackOK],
    [at |-> "ssl6_at", wait |-> "ssl6_wait", after |-> "configured",
     name |-> "CSSLCFG clientkey", len |-> 0, back |-> BackOK],
    [at |-> "cstart_at", wait |-> "cstart_wait", after |-> "accq_at",
     name |-> "CMQTTSTART", len |-> 0, back |-> BackStart],
    [at |-> "accq_at", wait |-> "accq_wait", after |-> "sslcfg_at",
     name |-> "CMQTTACCQ", len |-> 0, back |-> BackOK],
    [at |-> "sslcfg_at", wait |-> "sslcfg_wait", after |-> "willtopic_at",
     name |-> "CMQTTSSLCFG", len |-> 0, back |-> BackOK],
    [at |-> "willtopic_at", wait |-> "willtopic_wait", after |-> "willtopic_raw",
     name |-> "CMQTTWILLTOPIC", len |-> Len(Topic), back |-> BackPrompt],
    [at |-> "willmsg_at", wait |-> "willmsg_wait", after |-> "willmsg_raw",
     name |-> "CMQTTWILLMSG", len |-> Len(WillMessage), back |-> BackPrompt],
    [at |-> "connect_at", wait |-> "connect_wait", after |-> "connected",
     name |-> "CMQTTCONNECT", len |-> 0, back |-> BackConnect],
    [at |-> "disc_at", wait |-> "disc_wait", after |-> "rel_at",
     name |-> "CMQTTDISC", len |-> 0, back |-> BackOK],
    [at |-> "rel_at", wait |-> "rel_wait", after |-> "stop_at",
     name |-> "CMQTTREL", len |-> 0, back |-> BackOK],
    [at |-> "stop_at", wait |-> "stop_wait", after |-> "off",
     name |-> "CMQTTSTOP", len |-> 0, back |-> BackOK],
    [at |-> "subtopic_at", wait |-> "subtopic_wait", after |-> "subtopic_raw",
     name |-> "CMQTTSUBTOPIC", len |-> Len(Topic), back |-> BackPrompt],
    [at |-> "sub_at", wait |-> "sub_wait", after |-> "subscribed",
     name |-> "CMQTTSUB", len |-> 0, back |-> BackOK],
    [at |-> "topic_at", wait |-> "topic_wait", after |-> "topic_raw",
     name |-> "CMQTTTOPIC", len |-> Len(Topic), back |-> BackPrompt],
    [at |-> "payload_at", wait |-> "payload_wait", after |-> "payload_raw",
     name |-> "CMQTTPAYLOAD", len |-> PayloadLen(c), back |-> BackPrompt],
    [at |-> "pub_at", wait |-> "pub_wait", after |-> "pub_done",
     name |-> "CMQTTPUB", len |-> 0, back |-> BackPub]}

CheckPositions == {"chk1_at", "chk2_at", "chk3_at", "chk4_at", "chk5_at", 
                   "chk6_at", "chk7_at", "chk8_at", "chk9_at", "chk10_at"}
CheckWaits == {"chk1_wait", "chk2_wait", "chk3_wait", "chk4_wait", "chk5_wait", 
               "chk6_wait", "chk7_wait", "chk8_wait", "chk9_wait", "chk10_wait"}
SslPositions == {"ssl1_at", "ssl2_at", "ssl3_at", "ssl4_at", "ssl5_at", "ssl6_at"}
SslWaits == {"ssl1_wait", "ssl2_wait", "ssl3_wait", "ssl4_wait", "ssl5_wait", "ssl6_wait"}

ATPositions == CheckPositions \cup SslPositions \cup
               {"cstart_at", "accq_at", "sslcfg_at", "willtopic_at", "willmsg_at",
                "connect_at", "disc_at", "rel_at", "stop_at", "subtopic_at", "sub_at",
                "topic_at", "payload_at", "pub_at"}
WaitPositions == CheckWaits \cup SslWaits \cup
                 {"cstart_wait", "accq_wait", "sslcfg_wait", "willtopic_wait",
                  "willmsg_wait", "connect_wait", "disc_wait", "rel_wait", "stop_wait",
                  "subtopic_wait", "sub_wait", "topic_wait", "payload_wait", "pub_wait"}

\* ATCall variant: mqtt_disc without the release command
ATCallSkipRel(pc, c) ==
    LET t == CHOOSE t \in ATCalls(c) : t.at = pc \/ t.wait = pc
    IN  IF t.name = "CMQTTDISC" THEN [t EXCEPT !.after = "stop_at"] ELSE t

\* the command the AT call at this position sends, and the response it
\* expects
ATCall(pc, c) == CHOOSE t \in ATCalls(c) : t.at = pc \/ t.wait = pc

\* WaitOf variant: the announcing calls do not wait for the response
WaitOfNoWait(pc) ==
    IF pc \in {"topic_at", "payload_at", "subtopic_at"}
    THEN ATCall(pc, SenderIdle.cur).after
    ELSE ATCall(pc, SenderIdle.cur).wait

\* AT blocks in time.sleep(timeout) after the write
WaitOf(pc) == ATCall(pc, SenderIdle.cur).wait

AfterOf(pc) == ATCall(pc, SenderIdle.cur).after

\* '\r\n'
CRLF == <<"\r", "\n">>

\* AT, line 67: ser.write((command + '\r\n').encode())
ATWrite ==
    /\ spc \in ATPositions
    /\ wire' = Append(wire, [kind |-> "cmd", name |-> ATCall(spc, cur).name,
                             len |-> ATCall(spc, cur).len, data |-> <<>>,
                             eol |-> CRLF])
    /\ inflight' = inflight + 1
    /\ spc' = WaitOf(spc)
    /\ UNCHANGED <<byte_arr, chunk_size, headers, msgs, mi, cur, pubs, lost>>
    /\ UNCHANGED atvars
    /\ UNCHANGED rvars

\* a byte that is not valid UTF-8
BadByte == "<ff>"

\* rec_buff.decode() raises UnicodeDecodeError on a byte that is not UTF-8;
\* the bytes of a valid text decode to that text
DecodeOK(bs) == \A i \in 1..Len(bs) : bs[i] # BadByte
decode(bs) == [i \in 1..Len(bs) |-> bs[i]]

\* AT, lines 69-81: what the call returns for the chunks waiting in the input
\* buffer and the expected text. "1", "0", "None": the value returned;
\* "raised": line 73 raised
ATReturn(buf, back) ==
    LET rec_buff == Concat(buf) IN
    IF buf = <<>> THEN "None"
    ELSE IF ~DecodeOK(rec_buff) THEN "raised"
    ELSE IF ~Contains(decode(rec_buff), back) THEN "0"
    ELSE "1"

\* NextAfterAT variant: the session function returns when a call did not
\* return 1
NextAfterATAbort(pc, ret) ==
    IF ret = "raised" THEN "raised"
    ELSE IF ret # "1" THEN "aborted"
    ELSE AfterOf(pc)

\* where the session function goes on after the AT call at pc: the value
\* returned is dropped, an exception ends the run
NextAfterAT(pc, ret) == IF ret = "raised" THEN "raised" ELSE AfterOf(pc)

\* ser.read(ser.inWaiting()): the bytes of the chunks in the buffer
Waiting(buf) == [i \in 1..Len(buf) |-> buf[i].data]

\* AT, lines 68-81: after the sleep, read the buffer and return; the session
\* functions drop what AT returns. The modem publishes on CMQTTPUB; the
\* message then becomes one object of the bucket, or is lost
ATRead ==
    /\ spc \in WaitPositions
    /\ inflight' = inflight - 1
    /\ rx' = <<>>
    /\ rets' = Append(rets, ATReturn(Waiting(rx), ATCall(spc, cur).back))
    /\ spc' = NextAfterAT(spc, ATReturn(Waiting(rx), ATCall(spc, cur).back))
    /\ IF spc = "pub_wait"
       THEN \/ /\ bucket' = Append(bucket, [body |-> cur.payload, lm |-> T1])
               /\ owner' = Append(owner, OwnedBy(nsent, byte_arr, FALSE))
               /\ pulled' = 0
               /\ lost' = lost
            \/ /\ lost' = TRUE
               /\ UNCHANGED <<bucket, owner, pulled>>
       ELSE UNCHANGED <<bucket, owner, pulled, lost>>
    /\ UNCHANGED <<byte_arr, chunk_size, headers, msgs, mi, cur, wire, pubs, w0>>
    /\ UNCHANGED <<store, status, images, nsent, thr>>

\* a character outside ASCII, and the two bytes of its UTF-8 form
NonAscii == "<e9>"
Utf8OfNonAscii == <<"<c3>", "<a9>">>

\* str.encode(): one byte for an ASCII character, more for any other
encode(cs) == Concat([i \in 1..Len(cs) |->
                        IF cs[i] = NonAscii THEN Utf8OfNonAscii ELSE <<cs[i]>>])

\* the raw writes that follow an announcing AT call: the position, what is
\* written and the position after it
RawWrites(c) == {
    [raw |-> "willtopic_raw", data |-> encode(Topic), next |-> "willmsg_at"],
    [raw |-> "willmsg_raw", data |-> encode(WillMessage), next |-> "connect_at"],
    [raw |-> "subtopic_raw", data |-> encode(Topic), next |-> "sub_at"],
    [raw |-> "topic_raw", data |-> encode(Topic), next |-> "payload_at"],
    [raw |-> "payload_raw", data |-> IF c.raw THEN c.payload ELSE encode(c.payload),
     next |-> "pub_at"]}

RawPositions == {"willtopic_raw", "willmsg_raw", "subtopic_raw", "topic_raw",
                 "payload_raw"}

\* ser.write(topic.encode()), ser.write(message.encode()), ser.write(payload)
\* and the time.sleep(2) after it: lines 149, 152, 173, 187, 190
SerWrite ==
    /\ spc \in RawPositions
    /\ \E w \in {t \in RawWrites(cur) : t.raw = spc} :
          /\ wire' = Append(wire, [kind |-> "raw", name |-> "", len |-> 0,
                                   data |-> w.data, eol |-> <<>>])
          /\ spc' = w.next
    /\ UNCHANGED <<byte_arr, chunk_size, headers, msgs, mi, cur, inflight, pubs, lost>>
    /\ UNCHANGED atvars
    /\ UNCHANGED rvars

\* NextPub variant: the loop of line 222 stops one chunk early
NextPubSkipLast(c, ms, i) ==
    IF c.stage = "end" THEN [spc |-> "done", cur |-> c, mi |-> i]
    ELSE IF i + 1 < Len(ms)
         THEN [spc |-> "topic_at", mi |-> i + 1,
               cur |-> [payload |-> hexlify(ms[i + 1]), raw |-> TRUE, stage |-> "chunk"]]
    ELSE [spc |-> "topic_at", mi |-> i,
          cur |-> [payload |-> ImageEnd, raw |-> FALSE, stage |-> "end"]]

\* mqtt_sendimg, lines 222-224: what follows a publish that returned
NextPub(c, ms, i) ==
    IF c.stage = "end" THEN [spc |-> "done", cur |-> c, mi |-> i]
    ELSE IF i < Len(ms)
         THEN [spc |-> "topic_at", mi |-> i + 1,
               cur |-> [payload |-> hexlify(ms[i + 1]), raw |-> TRUE, stage |-> "chunk"]]
    ELSE [spc |-> "topic_at", mi |-> i,
          cur |-> [payload |-> ImageEnd, raw |-> FALSE, stage |-> "end"]]

\* mqtt_pub returns to mqtt_sendimg
PubReturn ==
    /\ spc = "pub_done"
    /\ pubs' = Append(pubs, [payload |-> cur.payload, raw |-> cur.raw])
    /\ spc' = NextPub(cur, msgs, mi).spc
    /\ cur' = NextPub(cur, msgs, mi).cur
    /\ mi' = NextPub(cur, msgs, mi).mi
    /\ rets' = <<>> /\ w0' = Len(wire)
    /\ UNCHANGED <<byte_arr, chunk_size, headers, msgs, wire, inflight, lost, rx>>
    /\ UNCHANGED rvars

\* the dashboard pulls once the transmission is over
PullAfterSend == spc = "done" /\ pull

NextSend == CallImgToChunks \/ SendImgStart \/ ATWrite \/ ATRead \/ SerWrite
            \/ PubReturn \/ PullAfterSend

SpecSend == InitSend /\ [][NextSend]_vars

----------------------------------------------------------------------------
(* Specification SpecAT: one session of the sender's main run, mqtt_conn,    *)
(* optionally mqtt_sub, one Frame, mqtt_disc, with a modem that answers,     *)
(* answers something else, answers garbage, or stays silent                  *)

\* a line of the modem
Reply(t) == CRLF \o t \o CRLF
RespError == Reply(<<"E","R","R","O","R">>)
Noise == <<BadByte>>

\* what the modem may put on the line: a prompt, OK, ERROR, line noise, and
\* the result code of the command that is waiting
DeviceSays ==
    {Reply(BackPrompt), Reply(BackOK), RespError, Noise}
    \cup (IF spc \in WaitPositions THEN {Reply(ATCall(spc, cur).back)} ELSE {})

\* the modem sends a chunk, at any time; it waits in the input buffer
DeviceEmit ==
    /\ Len(rx) < MaxRx
    /\ \E t \in DeviceSays : rx' = Append(rx, [data |-> t, at |-> Len(wire)])
    /\ UNCHANGED <<spc, byte_arr, chunk_size, headers, msgs, mi, cur, wire, inflight,
                   pubs, lost, rets, w0>>
    /\ UNCHANGED rvars

\* a session function is entered at position to
Enter(to) ==
    /\ spc' = to
    /\ rets' = <<>> /\ w0' = Len(wire)
    /\ UNCHANGED <<byte_arr, chunk_size, headers, msgs, mi, cur, wire, inflight, pubs,
                   lost, rx>>
    /\ UNCHANGED rvars

\* comm.mqtt_conn()
MqttConn == spc = "boot" /\ Enter("cstart_at")

\* comm.mqtt_sub()
MqttSub == spc = "connected" /\ Enter("subtopic_at")

\* a detection: msgs = comm.imgToChunks(img) is next
StartFrame == spc \in {"connected", "subscribed"} /\ Enter("start")

\* comm.mqtt_disc()
MqttDisc == spc = "done" /\ Enter("disc_at")

\* the images of the session: one byte, two bytes
SessionPayloads == {<<255>>, <<255, 10>>}

InitAT ==
    /\ ReceiverInit
    /\ \E b \in SessionPayloads :
          SenderIs([SenderIdle EXCEPT !.spc = "boot", !.byte_arr = b,
                                      !.chunk_size = DefaultChunkSize])

NextAT == DeviceEmit \/ MqttConn \/ MqttSub \/ StartFrame \/ CallImgToChunks
          \/ SendImgStart \/ ATWrite \/ ATRead \/ SerWrite \/ PubReturn \/ MqttDisc

SpecAT == InitAT /\ [][NextAT]_vars

----------------------------------------------------------------------------
(* Claims checked under SpecSend *)

\* the segment sizes of imgToChunks for 12000 bytes and chunk size 5000
ExampleSizes ==
    LET ms == imgToChunks([i \in 1..12000 |-> 0], 5000)
    IN  [k \in 1..Len(ms) |-> Len(ms[k])]

C1_RoundTrip ==
    (spc = "done" /\ ~lost /\ Len(headers.items) >= 10) =>
        /\ ~Scan(bucket).err
        /\ Len(Scan(bucket).images) = 1
        /\ Scan(bucket).images[1].arr = byte_arr
        /\ pulled >= 1 => (Len(images) = 1 /\ images[1].arr = byte_arr)

C1_Witness ==
    /\ spc = "done" /\ ~lost /\ headers = FieldsA /\ chunk_size = 2
    /\ byte_arr = <<255, 10, 255>> /\ Len(bucket) = 4
    /\ pulled >= 1 /\ status = "ok"
    /\ Len(images) = 1 /\ images[1].arr = <<255, 10, 255>>

\* what mqtt_sendimg is to publish, in order
ExpectedPubs ==
    <<[payload |-> StartToken(headers), raw |-> FALSE]>>
    \o [k \in 1..Len(msgs) |-> [payload |-> hexlify(msgs[k]), raw |-> TRUE]]
    \o <<[payload |-> ImageEnd, raw |-> FALSE]>>

IsPrefix(p, q) == Len(p) <= Len(q) /\ SubSeq(q, 1, Len(p)) = p

\* the i-th write of the serial channel belongs to publish (i-1) \div 5 + 1
WireSlotOK(i) ==
    LET j == ((i - 1) \div 5) + 1
        r == (i - 1) % 5
        w == wire[i]
    IN  /\ j <= Len(ExpectedPubs)
        /\ r = 0 => (w.kind = "cmd" /\ w.name = "CMQTTTOPIC")
        /\ r = 1 => (w.kind = "raw" /\ w.data = Topic)
        /\ r = 2 => (w.kind = "cmd" /\ w.name = "CMQTTPAYLOAD")
        /\ r = 3 => (w.kind = "raw" /\ w.data = ExpectedPubs[j].payload)
        /\ r = 4 => (w.kind = "cmd" /\ w.name = "CMQTTPUB")

\* C6: mqtt_sendimg publishes the Start token, the hex text of each chunk in
\* list order as a raw payload, then the End token, n + 2 publishes in all;
\* the writes of one publish are complete before the next publish writes,
\* and at most one AT transaction is in flight
C6_PublishOrder ==
    /\ inflight \in {0, 1}
    /\ inflight = 1 <=> spc \in {"topic_wait", "payload_wait", "pub_wait"}
    /\ spc \notin {"start", "sendimg"} =>
        /\ IsPrefix(pubs, ExpectedPubs)
        /\ \A i \in 1..Len(wire) : WireSlotOK(i)
        /\ 5 * Len(pubs) <= Len(wire) /\ Len(wire) <= 5 * Len(pubs) + 5
        /\ spc \in {"topic_at", "done"} => Len(wire) = 5 * Len(pubs)
    /\ spc = "done" => (pubs = ExpectedPubs /\ Len(pubs) = Len(msgs) + 2)

C6_Witness ==
    /\ spc = "done" /\ Len(msgs) = 2 /\ Len(pubs) = 4 /\ Len(wire) = 20
    /\ pubs[2].raw /\ pubs[3].raw /\ ~pubs[1].raw /\ ~pubs[4].raw
    /\ pubs[4].payload = ImageEnd

\* ",".join of texts
RECURSIVE CommaJoin(_)
CommaJoin(ts) ==
    IF ts = <<>> THEN <<>>
    ELSE IF Len(ts) = 1 THEN ts[1]
    ELSE ts[1] \o <<",">> \o CommaJoin(Tail(ts))

\* "{Image Start" + "," + join(metadata, ",") + "}"
JoinedStart(hs) ==
    BraceImageStart \o <<",">> \o CommaJoin([k \in 1..Len(hs.items) |-> str(hs.items[k])])
    \o <<"}">>

\* C7 as stated: the Start token is "{Image Start" "," join(metadata) "}" for
\* every metadata list, the empty and the absent one included
C7_Original == Len(pubs) >= 1 => pubs[1].payload = JoinedStart(headers)

\* C7 amended: the Start token is "{Image Start" "," join(metadata) "}" for
\* every non-empty metadata list, and "{Image Start}" with no comma for the
\* empty and the absent list
C7_StartToken ==
    Len(pubs) >= 1 =>
        pubs[1].payload = IF headers.present /\ headers.items # <<>>
                          THEN JoinedStart(headers) ELSE ImageStartOnly

C7_Witness ==
    /\ Len(pubs) >= 1 /\ headers = FieldsShort
    /\ pubs[1].payload = <<"{","I","m","a","g","e"," ","S","t","a","r","t",
                           ",","1",",","2",",","3","}">>

----------------------------------------------------------------------------
(* Claims checked under Spec *)

\* the scanner's states over the listing: ScanTrace(objs)[k + 1] is the
\* state after k objects
RECURSIVE ScanTrace(_, _)
ScanTrace(objs, k) ==
    IF k = 0 THEN <<ScanInit>>
    ELSE LET tr == ScanTrace(objs, k - 1)
         IN  Append(tr, ScanStep(tr[k], objs[k]))

IsStart(o) == Contains(o.body, ImageStartStr)
FieldsOf(o) == ParseMetadata(o.body)

\* the last Start object among the first k objects (0: none)
LastStart(objs, k) ==
    IF \E j \in 1..k : IsStart(objs[j])
    THEN CHOOSE j \in 1..k : IsStart(objs[j]) /\ \A i \in (j + 1)..k : ~IsStart(objs[i])
    ELSE 0

\* the first Start object after position k (Len + 1: none)
NextStart(objs, k) ==
    IF \E j \in (k + 1)..Len(objs) : IsStart(objs[j])
    THEN CHOOSE j \in (k + 1)..Len(objs) :
            IsStart(objs[j]) /\ \A i \in (k + 1)..(j - 1) : ~IsStart(objs[i])
    ELSE Len(objs) + 1

\* the hex-decoded bytes of objects lo..hi, in listing order
RECURSIVE BytesOf(_, _, _)
BytesOf(objs, lo, hi) ==
    IF lo > hi THEN <<>> ELSE BytesOf(objs, lo, hi - 1) \o unhexlify(objs[hi].body)

\* Accumulating after k objects, told from the listing alone: the last Start
\* has at least 10 fields and no End follows it
Accumulating(objs, k) ==
    LET s == LastStart(objs, k)
    IN  /\ s > 0
        /\ Len(FieldsOf(objs[s])) >= 10
        /\ \A i \in (s + 1)..k : objs[i].body # ImageEnd

\* C8: a candidate is emitted only by an End object scanned in Accumulating;
\* it carries the bytes of the objects since the last Start in listing
\* order, the End object's LastModified and that Start's metadata, and
\* leaves the scanner Idle; in Idle a chunk or End object changes nothing
C8_Emit ==
    \A tr \in {ScanTrace(bucket, Len(bucket))} :
    \A k \in 1..Len(bucket) :
        LET pre == tr[k]
            post == tr[k + 1]
            o == bucket[k]
            s == LastStart(bucket, k - 1)
        IN  ~post.err =>
            /\ pre.parsing <=> Accumulating(bucket, k - 1)
            /\ (o.body = ImageEnd /\ pre.parsing) =>
                  /\ post.images = Append(pre.images,
                        [arr |-> BytesOf(bucket, s + 1, k - 1), lm |-> o.lm,
                         metadata |-> FieldsOf(bucket[s])])
                  /\ ~post.parsing
            /\ ~(o.body = ImageEnd /\ pre.parsing) => post.images = pre.images
            /\ (~pre.parsing /\ ~IsStart(o)) => post = pre

C8_Witness ==
    /\ Len(bucket) = 4
    /\ bucket[1].body = StartToken(FieldsB)
    /\ bucket[2].body = hexlify(<<255>>) /\ bucket[3].body = hexlify(<<10>>)
    /\ bucket[4].body = ImageEnd
    /\ pulled >= 1 /\ status = "ok"
    /\ images = <<[arr |-> <<255, 10>>, lm |-> T3,
                   metadata |-> <<<<"2">>, <<"2">>, <<"4">>, <<"0">>, <<"5">>,
                                  <<"6">>, <<"7">>, <<"8">>, <<"9">>, <<"4">>>>]>>

\* a Frame that starts at s and gets no End: its Start is accepted and the
\* next marker after it is another Start, or there is none
MissingEnd(objs, s) ==
    /\ IsStart(objs[s]) /\ Len(FieldsOf(objs[s])) >= 10
    /\ \A i \in (s + 1)..(NextStart(objs, s) - 1) : objs[i].body # ImageEnd

\* C3: a Frame without an End emits no candidate, its bytes are dropped when
\* the next Start is scanned and are in no later candidate, and every
\* DetectionRecord comes from a candidate
C3_NoEnd ==
    \A tr \in {ScanTrace(bucket, Len(bucket))} :
    /\ \A s \in 1..Len(bucket) :
          (MissingEnd(bucket, s) /\ ~tr[s + 1].err) =>
              LET n == NextStart(bucket, s) IN
              /\ \A k \in s..(n - 1) : tr[k + 1].images = tr[s].images
              /\ (n <= Len(bucket) /\ ~tr[n + 1].err) => tr[n + 1].arr = <<>>
              /\ \A e \in (n + 1)..Len(bucket) :
                    (tr[e + 1].images # tr[e].images) =>
                        /\ LastStart(bucket, e) >= n
                        /\ tr[e + 1].images[Len(tr[e + 1].images)].arr
                              = BytesOf(bucket, LastStart(bucket, e) + 1, e - 1)
    /\ \A r \in 1..Len(map_data) :
          \E c \in 1..Len(tr[Len(bucket) + 1].images) :
              map_data[r].Date = datetimeToString(tr[Len(bucket) + 1].images[c].lm)

C3_Witness ==
    /\ Len(bucket) = 4
    /\ bucket[1].body = StartToken(FieldsA) /\ bucket[2].body = hexlify(<<10>>)
    /\ bucket[3].body = StartToken(FieldsB) /\ bucket[4].body = ImageEnd
    /\ pulled >= 1
    /\ images = <<[arr |-> <<>>, lm |-> T3, metadata |-> FieldsOf(bucket[3])]>>
    /\ map_data = <<>>

\* the listing without the objects lo..hi
Without(objs, lo, hi) == SubSeq(objs, 1, lo - 1) \o SubSeq(objs, hi + 1, Len(objs))

\* the candidates emitted after the first k objects
EmittedAfter(objs, k) ==
    LET all == Scan(objs).images
        before == ScanPrefix(objs, k).images
    IN  SubSeq(all, Len(before) + 1, Len(all))

\* C4: after a Start token with fewer than 10 fields the scanner is Idle,
\* nothing up to the next Start emits a candidate, and the Frames after it
\* give the candidates they give without the malformed Frame's objects
C4_Malformed ==
    \A tr \in {ScanTrace(bucket, Len(bucket))} :
    \A m \in 1..Len(bucket) :
        (IsStart(bucket[m]) /\ Len(FieldsOf(bucket[m])) < 10 /\ ~tr[m].err) =>
            LET n == NextStart(bucket, m)
                rest == Without(bucket, m, n - 1)
            IN  /\ ~tr[m + 1].parsing
                /\ \A k \in m..(n - 1) :
                      /\ ~tr[k + 1].parsing /\ ~tr[k + 1].err
                      /\ tr[k + 1].images = tr[m].images
                /\ EmittedAfter(bucket, n - 1) = EmittedAfter(rest, m - 1)
                /\ Scan(bucket).err = Scan(rest).err

C4_Witness ==
    /\ Len(bucket) = 4
    /\ bucket[1].body = StartToken(FieldsA) /\ bucket[2].body = StartToken(FieldsShort)
    /\ bucket[3].body = hexlify(<<255>>) /\ bucket[4].body = ImageEnd
    /\ ScanPrefix(bucket, 1).parsing /\ ~ScanPrefix(bucket, 2).parsing
    /\ pulled >= 1 /\ status = "no-images" /\ images = <<>>

----------------------------------------------------------------------------
(* Claims checked under SpecStore *)

\* C2: a second pull() of an unchanged bucket adds no DetectionRecord, saves
\* no new image, adds no processed key and changes no HourlyBucket
C2_Idempotent ==
    [][(pull /\ pulled >= 1) => UNCHANGED <<map_data, assets, files, hourly>>]_vars

C2_Witness ==
    /\ pulled = 2 /\ status = "ok" /\ Len(bucket) = 6
    /\ Len(images) = 2 /\ Len(map_data) = 2 /\ Len(files) = 2
    /\ hourly = <<[Date |-> [date |-> 1, secs |-> 3600, us |-> 0], Count |-> 1],
                  [Date |-> [date |-> 1, secs |-> 7200, us |-> 0], Count |-> 1]>>

NoRepeat(q) == \A i, j \in 1..Len(q) : q[i] = q[j] => i = j

\* C9: the processed keys only grow, no key is in the list twice and no two
\* DetectionRecords carry the same key
C9_Keys ==
    [][/\ IsPrefix(files, files')
       /\ NoRepeat(files')
       /\ NoRepeat([r \in 1..Len(map_data') |-> map_data'[r].Date])]_vars

\* two Frames of the same second in one listing: one key, one record
C9_Witness ==
    /\ status = "ok" /\ pulled >= 1 /\ Len(images) = 2
    /\ images[1].lm = T1 /\ images[2].lm = T2
    /\ files = <<datetimeToString(T1)>>
    /\ Len(map_data) = 1

\* the candidate has a DetectionRecord of its own
HasOwnRow(img, rows) ==
    /\ RowOK(img.metadata)
    /\ \E r \in 1..Len(rows) : rows[r] = Row(img)

KeySeen(f, imgs, i) ==
    \/ InFiles(f, datetimeToString(imgs[i].lm))
    \/ \E j \in 1..(i - 1) : datetimeToString(imgs[j].lm) = datetimeToString(imgs[i].lm)

\* the candidate's bytes open as an image and its fields are numbers
Decodes(img) == ImageOpenOK(img.arr) /\ RowOK(img.metadata)

BucketRows(h, d) == {r \in 1..Len(h) : h[r].Date = d}
CountOf(h, d) == IF BucketRows(h, d) = {} THEN 0
                 ELSE h[CHOOSE r \in BucketRows(h, d) : TRUE].Count

\* the candidates of a pull whose key was not processed before them
NewKeyCands(f, imgs) == {i \in 1..Len(imgs) : ~KeySeen(f, imgs, i)}

\* C11: a pull raises the bucket of every hour by the number of its
\* candidates with an unseen key that round to the hour (inserting the bucket
\* when absent) and changes no other bucket; counts never decrease, every
\* bucket has count >= 1 and there is one bucket per hour at most
C11_Original ==
    [][/\ pull =>
            \A i \in 1..Len(images') :
                LET d == roundTime(images'[i].lm, 3600) IN
                CountOf(hourly', d) = CountOf(hourly, d)
                    + Cardinality({j \in NewKeyCands(files, images') :
                                      roundTime(images'[j].lm, 3600) = d})
       /\ \A r \in 1..Len(hourly) :
            /\ r <= Len(hourly') /\ hourly'[r].Date = hourly[r].Date
            /\ hourly'[r].Count >= hourly[r].Count
       /\ \A r \in 1..Len(hourly') :
            hourly'[r].Count >= 1 /\ Cardinality(BucketRows(hourly', hourly'[r].Date)) = 1]_vars

\* C12: after a pull that yields at least one candidate, self.mostRecent is
\* the key of the last candidate of the listing
C12_Original ==
    [][(pull /\ images' # <<>>) =>
          mostRecent' = datetimeToString(images'[Len(images')].lm)]_vars

----------------------------------------------------------------------------
(* Claims checked under SpecAT *)

\* the commands written to the channel since the running function was entered
CmdsSince(w, from) ==
    LET idx == {i \in (from + 1)..Len(w) : w[i].kind = "cmd"}
        RECURSIVE Pick(_)
        Pick(S) == IF S = {} THEN <<>>
                   ELSE LET m == CHOOSE x \in S : \A y \in S : x <= y
                        IN  <<w[m].name>> \o Pick(S \ {m})
    IN  Pick(idx)

\* C13: AT writes the command plus CR/LF once and reads the buffer once; it
\* returns 1 exactly when what it read is non-empty and contains the expected
\* text, 0 exactly when it is non-empty and does not contain it, and None
\* exactly when nothing was read
C13_Original ==
    [][/\ ATWrite =>
            /\ Len(wire') = Len(wire) + 1
            /\ wire'[Len(wire')].kind = "cmd" /\ wire'[Len(wire')].eol = CRLF
       /\ ATRead =>
            LET buf == Concat(Waiting(rx))
                back == ATCall(spc, cur).back
                ret == rets'[Len(rets')]
            IN  /\ rets' = Append(rets, ret) /\ wire' = wire /\ rx' = <<>>
                /\ ret = "1" <=> (buf # <<>> /\ Contains(buf, back))
                /\ ret = "0" <=> (buf # <<>> /\ ~Contains(buf, back))
                /\ ret = "None" <=> buf = <<>>
       /\ Len(CmdsSince(wire', w0')) = Len(rets') + inflight']_vars

Returned == {"1", "0", "None"}

ConnCmds == <<"CMQTTSTART", "CMQTTACCQ", "CMQTTSSLCFG", "CMQTTWILLTOPIC",
              "CMQTTWILLMSG", "CMQTTCONNECT">>
ConnPositions == {"cstart_at", "cstart_wait", "accq_at", "accq_wait", "sslcfg_at",
                  "sslcfg_wait", "willtopic_at", "willtopic_wait", "willtopic_raw",
                  "willmsg_at", "willmsg_wait", "willmsg_raw", "connect_at",
                  "connect_wait"}

\* C14: whatever its AT calls return (1, 0 or None), mqtt_conn sends session
\* start, client registration, SSL binding, will topic, will message and
\* connect, in that order: the calls made so far are the first ones of the
\* list, a call that returned is followed by the next one, the function ends
\* only after all six (or when a call raises), and it sends no disconnect,
\* release or stop
C14_ConnSequence ==
    [][/\ spc' \in ConnPositions \cup {"connected"} =>
            /\ IsPrefix(CmdsSince(wire', w0'), ConnCmds)
            /\ Len(CmdsSince(wire', w0')) = Len(rets') + inflight'
            /\ spc' \in ATPositions => ATCall(spc', cur').name = ConnCmds[Len(rets') + 1]
       /\ spc' = "connected" => (CmdsSince(wire', w0') = ConnCmds /\ Len(rets') = 6)
       /\ spc \in ConnPositions =>
            /\ spc' \in ConnPositions \cup {"connected", "raised"}
            /\ spc' = "raised" => rets'[Len(rets')] = "raised"]_vars

C14_Witness ==
    /\ spc = "connected"
    /\ rets = <<"0", "None", "1", "None", "0", "0">>
    /\ CmdsSince(wire, w0) = ConnCmds

\* the entries of the channel written by mqtt_pub or mqtt_sub so far
SinceEntry == SubSeq(wire, w0 + 1, Len(wire))
Announcing == {"CMQTTTOPIC", "CMQTTPAYLOAD", "CMQTTSUBTOPIC"}
Confirming == {"pub_at", "sub_at"}
PubSubPositions == {"topic_at", "topic_wait", "topic_raw", "payload_at", "payload_wait",
                    "payload_raw", "pub_at", "pub_wait", "subtopic_at", "subtopic_wait",
                    "subtopic_raw", "sub_at", "sub_wait"}

DiscCmds == <<"CMQTTDISC", "CMQTTREL", "CMQTTSTOP">>
DiscPositions == {"disc_at", "disc_wait", "rel_at", "rel_wait", "stop_at", "stop_wait"}

\* C16: whatever its AT calls return (1, 0 or None), mqtt_disc sends
\* disconnect, release and stop, in that order, and nothing else; it ends
\* only after all three (or when a call raises)
C16_DiscSequence ==
    [][/\ spc' \in DiscPositions \cup {"off"} =>
            /\ IsPrefix(CmdsSince(wire', w0'), DiscCmds)
            /\ Len(CmdsSince(wire', w0')) = Len(rets') + inflight'
            /\ Len(wire') - w0' = Len(CmdsSince(wire', w0'))
       /\ spc' = "off" => (CmdsSince(wire', w0') = DiscCmds /\ Len(rets') = 3)
       /\ spc \in DiscPositions =>
            /\ spc' \in DiscPositions \cup {"off", "raised"}
            /\ spc' = "raised" => rets'[Len(rets')] = "raised"]_vars

C16_Witness ==
    /\ spc = "off" /\ rets = <<"None", "0", "1">>
    /\ CmdsSince(wire, w0) = DiscCmds

----------------------------------------------------------------------------
(* Specification SpecRace: two callers run pull() on one pullS3 instance,    *)
(* statement by statement, over a listing that does not change               *)

MaxPullCalls == 2   \* invocations of pull() (SpecRace)

\* the Frames in the bucket: one Frame; two Frames of different seconds and
\* hours; two Frames of the same second
RaceListings == {
    FrameObjects(<<255>>, FieldsA, T1),
    FrameObjects(<<255>>, FieldsA, T1) \o FrameObjects(<<255>>, FieldsB, T3),
    FrameObjects(<<255>>, FieldsA, T1) \o FrameObjects(<<255>>, FieldsB, T2) }

InitRace ==
    /\ bucket \in RaceListings
    /\ owner = [k \in 1..Len(bucket) |-> Unowned]
    /\ NewInstance
    /\ SenderIs(SenderIdle)

\* the locals of caller t, and the candidate its loop is at
Loc(t) == thr.th[t]
Img(t) == Loc(t).imgs[Loc(t).i]
Key(t) == datetimeToString(Img(t).lm)

\* caller t goes on with locals l
Goes(t, l) == thr' = [thr EXCEPT !.th[t] = l]

\* caller t leaves pull(), by the return of line 161 or by an exception
Leaves(t, how) ==
    /\ Goes(t, NotRunning)
    /\ status' = how
    /\ images' = Loc(t).imgs
    /\ pulled' = Min(pulled + 1, 2)

RaceFrame == /\ UNCHANGED <<bucket, nsent, owner>>
             /\ UNCHANGED svars

\* lines 96-136: the scan, which reads the listing and no field of self
TCall(t) ==
    /\ Loc(t).pc = "idle"
    /\ thr.calls < MaxPullCalls
    /\ \E sc \in {Scan(bucket)} :
          IF sc.err
          THEN /\ thr' = [thr EXCEPT !.calls = @ + 1]
               /\ status' = "scan-error" /\ images' = <<>>
               /\ pulled' = Min(pulled + 1, 2)
          ELSE /\ thr' = [thr EXCEPT
                     !.th[t] = [NotRunning EXCEPT !.pc = "for", !.imgs = sc.images, !.i = 1],
                     !.calls = @ + 1,
                     !.raced = @ \/ \E u \in Threads \ {t} : Loc(u).pc # "idle"]
               /\ UNCHANGED <<status, images, pulled>>
    /\ UNCHANGED store
    /\ RaceFrame

\* lines 140-141 and 159: the next candidate, and the processed-key test
TFor(t) ==
    /\ Loc(t).pc = "for"
    /\ Goes(t, IF Loc(t).i > Len(Loc(t).imgs) THEN [Loc(t) EXCEPT !.pc = "end"]
               ELSE IF InFiles(files, Key(t)) THEN [Loc(t) EXCEPT !.i = @ + 1]
               ELSE [Loc(t) EXCEPT !.pc = "open"])
    /\ UNCHANGED <<store, status, images, pulled>>
    /\ RaceFrame

\* lines 142-144: Image.open and im.save
TOpen(t) ==
    /\ Loc(t).pc = "open"
    /\ IF ~ImageOpenOK(Img(t).arr)
       THEN Leaves(t, "img-error") /\ UNCHANGED store
       ELSE /\ assets' = assets \cup {Key(t)}
            /\ Goes(t, [Loc(t) EXCEPT !.pc = IF Img(t).metadata # <<>> THEN "row" ELSE "files"])
            /\ UNCHANGED <<files, mostRecent, map_data, hourly, status, images, pulled>>
    /\ RaceFrame

\* lines 146-151, right-hand side: self.map_data.append(...) builds a new
\* frame from the one it reads
TRow(t) ==
    /\ Loc(t).pc = "row"
    /\ IF ~RowOK(Img(t).metadata)
       THEN Leaves(t, "img-error")
       ELSE /\ Goes(t, [Loc(t) EXCEPT !.pc = "row_store", !.tmp = Append(map_data, Row(Img(t)))])
            /\ UNCHANGED <<status, images, pulled>>
    /\ UNCHANGED store
    /\ RaceFrame

\* line 146, the assignment to self.map_data
TRowStore(t) ==
    /\ Loc(t).pc = "row_store"
    /\ map_data' = Loc(t).tmp
    /\ Goes(t, [Loc(t) EXCEPT !.pc = "files", !.tmp = <<>>])
    /\ UNCHANGED <<files, mostRecent, hourly, assets, status, images, pulled>>
    /\ RaceFrame

\* TFiles variant: line 152 (self.files.append) left out
TFilesNoAppend(t) ==
    /\ Loc(t).pc = "files"
    /\ Goes(t, [Loc(t) EXCEPT !.pc = "h_check"])
    /\ UNCHANGED <<store, status, images, pulled>>
    /\ RaceFrame

\* line 152
TFiles(t) ==
    /\ Loc(t).pc = "files"
    /\ files' = Append(files, Key(t))
    /\ Goes(t, [Loc(t) EXCEPT !.pc = "h_check"])
    /\ UNCHANGED <<mostRecent, map_data, hourly, assets, status, images, pulled>>
    /\ RaceFrame

\* lines 153-154
THCheck(t) ==
    /\ Loc(t).pc = "h_check"
    /\ Goes(t, [Loc(t) EXCEPT !.pc = IF InHourly(hourly, roundTime(Img(t).lm, 3600))
                                     THEN "h_loc" ELSE "h_new"])
    /\ UNCHANGED <<store, status, images, pulled>>
    /\ RaceFrame

\* line 155, right-hand side: self.hourly.append(...) builds a new frame
THNew(t) ==
    /\ Loc(t).pc = "h_new"
    /\ Goes(t, [Loc(t) EXCEPT !.pc = "h_store",
                   !.tmp = Append(hourly, [Date |-> roundTime(Img(t).lm, 3600), Count |-> 0])])
    /\ UNCHANGED <<store, status, images, pulled>>
    /\ RaceFrame

\* line 155, the assignment to self.hourly: the frame that was self.hourly is
\* dropped, and a caller that holds its .at indexer (line 157) writes to the
\* dropped frame
THStore(t) ==
    /\ Loc(t).pc = "h_store"
    /\ hourly' = Loc(t).tmp
    /\ thr' = [thr EXCEPT !.th = [u \in Threads |->
                 IF u = t THEN [Loc(t) EXCEPT !.pc = "h_loc", !.tmp = <<>>]
                 ELSE IF Loc(u).pc = "inc_store" THEN [Loc(u) EXCEPT !.stale = TRUE]
                 ELSE Loc(u)]]
    /\ UNCHANGED <<files, mostRecent, map_data, assets, status, images, pulled>>
    /\ RaceFrame

\* line 156: getIndexes(...)[0] raises IndexError when no row holds roundDate
THLoc(t) ==
    /\ Loc(t).pc = "h_loc"
    /\ IF ~InHourly(hourly, roundTime(Img(t).lm, 3600))
       THEN Leaves(t, "img-error")
       ELSE /\ Goes(t, [Loc(t) EXCEPT !.pc = "inc",
                           !.loc = getIndexes(hourly, roundTime(Img(t).lm, 3600))])
            /\ UNCHANGED <<status, images, pulled>>
    /\ UNCHANGED store
    /\ RaceFrame

\* line 157, the read of self.hourly.at[loc, "Count"]: KeyError when the
\* frame has no row loc
TInc(t) ==
    /\ Loc(t).pc = "inc"
    /\ IF Loc(t).loc > Len(hourly)
       THEN Leaves(t, "img-error")
       ELSE /\ Goes(t, [Loc(t) EXCEPT !.pc = "inc_store", !.cnt = hourly[Loc(t).loc].Count,
                           !.stale = FALSE])
            /\ UNCHANGED <<status, images, pulled>>
    /\ UNCHANGED store
    /\ RaceFrame

\* line 157, the write through the same indexer
TIncStore(t) ==
    /\ Loc(t).pc = "inc_store"
    /\ hourly' = IF Loc(t).stale THEN hourly
                 ELSE [hourly EXCEPT ![Loc(t).loc].Count = Loc(t).cnt + 1]
    /\ Goes(t, [Loc(t) EXCEPT !.pc = "for", !.i = @ + 1, !.loc = 0, !.cnt = 0, !.stale = FALSE])
    /\ UNCHANGED <<files, mostRecent, map_data, assets, status, images, pulled>>
    /\ RaceFrame

\* lines 160-161
TEnd(t) ==
    /\ Loc(t).pc = "end"
    /\ IF Loc(t).imgs = <<>>
       THEN Leaves(t, "no-images") /\ UNCHANGED store
       ELSE /\ Leaves(t, "ok")
            /\ mostRecent' = datetimeToString(Loc(t).imgs[Len(Loc(t).imgs)].lm)
            /\ UNCHANGED <<files, map_data, hourly, assets>>
    /\ RaceFrame

NextRace ==
    \E t \in Threads :
        \/ TCall(t) \/ TFor(t) \/ TOpen(t) \/ TRow(t) \/ TRowStore(t) \/ TFiles(t)
        \/ THCheck(t) \/ THNew(t) \/ THStore(t) \/ THLoc(t) \/ TInc(t) \/ TIncStore(t)
        \/ TEnd(t)

SpecRace == InitRace /\ [][NextRace]_vars

----------------------------------------------------------------------------
(* Claims checked under SpecRace *)

\* one key has two DetectionRecords
DoubleRecord ==
    \E i, j \in 1..Len(map_data) : i < j /\ map_data[i].Date = map_data[j].Date

\* the processed keys that round to hour d
KeysOfHour(d) == {files[i] : i \in {k \in 1..Len(files) :
                     \E o \in 1..Len(bucket) :
                        /\ datetimeToString(bucket[o].lm) = files[k]
                        /\ roundTime(bucket[o].lm, 3600) = d}}

RECURSIVE SumCounts(_, _)
SumCounts(h, d) ==
    IF h = <<>> THEN 0
    ELSE (IF Head(h).Date = d THEN Head(h).Count ELSE 0) + SumCounts(Tail(h), d)

\* the bucket of some hour was incremented more often than keys were
\* processed for it
DoubleCount ==
    \E r \in 1..Len(hourly) :
        SumCounts(hourly, hourly[r].Date) > Cardinality(KeysOfHour(hourly[r].Date))

\* C17: a key with two DetectionRecords, or an hourly bucket incremented
\* twice for one Frame, or a key processed twice, is reached only when two
\* pull() invocations were in progress at once; invocations that follow one
\* another never reach it (the witnesses show the interleaved case reached)
C17_Races ==
    (\/ DoubleRecord \/ DoubleCount
     \/ \E i, j \in 1..Len(files) : i < j /\ files[i] = files[j]) => thr.raced

C17_Witness ==
    /\ thr.raced /\ DoubleRecord /\ DoubleCount
    /\ \A t \in Threads : Loc(t).pc = "idle"
    /\ status = "ok"
    /\ Len(images) = 1

----------------------------------------------------------------------------
(* Specification SpecLossy: Frames are sent one after the other; mqtt_pub    *)
(* drops what AT returns, so any publish of a Frame may fail to reach the    *)
(* bucket while mqtt_sendimg goes on with the next                           *)

\* payload and metadata of the Frames sent
LossyInputs == {[b |-> <<255>>, hs |-> FieldsA], [b |-> <<255>>, hs |-> FieldsB]}

\* LastModified of the objects of a Frame
LossyTimes == {T1, T3}

\* the first k objects of a Frame, without those whose publish failed
RECURSIVE Stored(_, _, _)
Stored(objs, keep, k) ==
    IF k = 0 THEN <<>>
    ELSE Stored(objs, keep, k - 1) \o (IF k \in keep THEN <<objs[k]>> ELSE <<>>)

\* imgToChunks + mqtt_sendimg for one Frame; keep: the publishes that are stored
SendLossy ==
    /\ nsent < MaxFrames
    /\ \E f \in LossyInputs : \E t \in LossyTimes :
       \E objs \in {FrameObjects(f.b, f.hs, t)} : \E keep \in SUBSET (1..Len(objs)) :
          /\ bucket' = bucket \o Stored(objs, keep, Len(objs))
          /\ owner' = owner \o [k \in 1..Cardinality(keep) |->
                                    OwnedBy(nsent + 1, f.b, keep = 1..Len(objs))]
    /\ nsent' = nsent + 1
    /\ pulled' = 0
    /\ UNCHANGED <<store, status, images, thr>>
    /\ UNCHANGED svars

NextLossy == SendLossy \/ pull

SpecLossy == Init /\ [][NextLossy]_vars

----------------------------------------------------------------------------
(* Claims checked under SpecLossy *)

\* the End objects at which the scanner emits a candidate
EmitsAt(objs) == {e \in 1..Len(objs) :
                    objs[e].body = ImageEnd /\ ScanPrefix(objs, e - 1).parsing}

\* the object that put the scanner in Accumulating for the candidate of e
StartOf(objs, e) == CHOOSE s \in 1..(e - 1) :
    /\ Contains(objs[s].body, ImageStartStr)
    /\ \A k \in (s + 1)..(e - 1) : ~Contains(objs[k].body, ImageStartStr)

\* C18: every candidate of a pull is built from one Start marker, one End
\* marker and the chunks the scanner read between them, and all of these
\* objects were published in one and the same Frame
C18_Original ==
    [][pull =>
         /\ Len(images') = Cardinality(EmitsAt(bucket))
         /\ \A e \in EmitsAt(bucket) :
               \A k \in StartOf(bucket, e)..e : owner[k].frame = owner[e].frame]_vars

----------------------------------------------------------------------------
(* Claims checked under Spec: the rescan *)

\* told from the listing alone: unhexlify raises on some object read in
\* Accumulating
ListingFails(objs) ==
    \E k \in 1..Len(objs) :
        /\ Accumulating(objs, k - 1)
        /\ ~IsStart(objs[k]) /\ objs[k].body # ImageEnd
        /\ ~UnhexOK(objs[k].body)

\* told from the listing alone: the candidates of its first k objects
RECURSIVE ListingCands(_, _)
ListingCands(objs, k) ==
    IF k = 0 THEN <<>>
    ELSE IF objs[k].body = ImageEnd /\ Accumulating(objs, k - 1)
    THEN Append(ListingCands(objs, k - 1),
                [arr |-> BytesOf(objs, LastStart(objs, k - 1) + 1, k - 1),
                 lm |-> objs[k].lm,
                 metadata |-> FieldsOf(objs[LastStart(objs, k - 1)])])
    ELSE ListingCands(objs, k - 1)

\* C19: the candidates of every pull are those of a scan of the whole
\* current listing that starts Idle at its first object, whatever the store
\* holds and whatever earlier pulls did; a pull over an unchanged listing
\* yields the candidates of the pull before it
C19_Rescan ==
    [][pull =>
         /\ IF ListingFails(bucket)
            THEN status' = "scan-error" /\ images' = <<>>
            ELSE status' # "scan-error" /\ images' = ListingCands(bucket, Len(bucket))
         /\ pulled >= 1 => images' = images]_vars

\* a second pull over an unchanged listing, with a processed key in the
\* store, has yielded its candidate again
C19_Witness ==
    /\ pulled = 2 /\ status = "ok"
    /\ files # <<>> /\ map_data # <<>>
    /\ images # <<>> /\ images = ListingCands(bucket, Len(bucket))

----------------------------------------------------------------------------
(* Specification SpecRound: one Frame is stored at any whole second of a     *)
(* day, and pull() rounds its arrival time to the hour                       *)

DaySecs == 24 * 3600

\* the arrival times: every whole second of day 1
RoundTimes == {[date |-> 1, secs |-> s, us |-> 0] : s \in 0..(DaySecs - 1)}

InitRound ==
    /\ \E t \in RoundTimes :
          /\ bucket = FrameObjects(<<255>>, FieldsA, t)
          /\ owner = [k \in 1..Len(bucket) |-> OwnedBy(1, <<255>>, TRUE)]
    /\ NewInstance
    /\ SenderIs(SenderIdle)

NextRound == pull

SpecRound == InitRound /\ [][NextRound]_vars

----------------------------------------------------------------------------
(* Claims checked under SpecRound *)

\* seconds since the start of day 0
SecsOf(dt) == dt.date * DaySecs + dt.secs

\* C20: after the pull of a Frame that arrived at a whole second s of a day,
\* the hourly bucket's time is a whole multiple of 3600 seconds, lies within
\* 1800 seconds of the arrival time, and is the next full hour when the
\* arrival is exactly on the half hour, also when that hour is 00:00:00 of
\* the next day
C20_Rounds ==
    status = "ok" =>
        /\ Len(hourly) = 1 /\ Len(images) = 1
        /\ \E d \in {hourly[1].Date} : \E a \in {images[1].lm} :
              /\ d.secs % 3600 = 0 /\ d.us = 0 /\ d.secs \in 0..(DaySecs - 1)
              /\ SecsOf(d) - SecsOf(a) \in -1800..1800
              /\ a.secs % 3600 = 1800 => SecsOf(d) = SecsOf(a) + 1800
              /\ a.secs >= DaySecs - 1800 <=> d = [date |-> a.date + 1, secs |-> 0, us |-> 0]

\* the Frame that arrived at 23:30:00 is counted at 00:00:00 of the next day
C20_Witness ==
    /\ status = "ok"
    /\ images[1].lm = [date |-> 1, secs |-> 23 * 3600 + 1800, us |-> 0]
    /\ hourly = <<[Date |-> [date |-> 2, secs |-> 0, us |-> 0], Count |-> 1]>>

----------------------------------------------------------------------------
(* Claims checked under SpecAT: announced lengths *)

----------------------------------------------------------------------------
(* Claims checked under SpecStore: the fields of a record *)

\* the record r was made from candidate c: fields 0, 1, 2 and 4 to 9 of the
\* metadata (counted from 1 here), the key as date, the count plus one as size
MadeFrom(r, c) ==
    /\ Len(c.metadata) >= 10
    /\ \A f \in {1, 2, 3, 5, 6, 7, 8, 9, 10} : FloatOK(c.metadata[f])
    /\ r.lat = float(c.metadata[1]) /\ r.lon = float(c.metadata[2])
    /\ r.clusters = float(c.metadata[3])
    /\ r.temp = float(c.metadata[5]) /\ r.humidity = float(c.metadata[6])
    /\ r.pressure = float(c.metadata[7]) /\ r.pitch = float(c.metadata[8])
    /\ r.roll = float(c.metadata[9]) /\ r.yaw = float(c.metadata[10])
    /\ r.Date = datetimeToString(c.lm)
    /\ r.size = r.clusters + 1

\* C22: every record a pull appends is made from one of its candidates:
\* latitude, longitude and count from fields 0 to 2, the six sensor values
\* from fields 4 to 9, the date from the candidate's key, the size weight
\* the count plus one; the placeholder and fields after the tenth are not
\* read; the records that were there stay as they were
C22_Fields ==
    [][pull =>
         /\ Len(map_data') >= Len(map_data)
         /\ SubSeq(map_data', 1, Len(map_data)) = map_data
         /\ \A k \in (Len(map_data) + 1)..Len(map_data') :
               \E i \in 1..Len(images') : MadeFrom(map_data'[k], images'[i])]_vars

\* the record of a Frame sent with the eleven fields 1,2,3,0,5,6,7,8,9,4,12
C22_Witness ==
    /\ status = "ok" /\ Len(images) = 1 /\ Len(images[1].metadata) = 11
    /\ map_data = <<[clusters |-> 3, Date |-> datetimeToString(T1), lat |-> 1, lon |-> 2,
                     temp |-> 5, humidity |-> 6, pressure |-> 7, pitch |-> 8,
                     roll |-> 9, yaw |-> 4, size |-> 4]>>

----------------------------------------------------------------------------
(* Claims checked under SpecStore: the dedup key *)

\* two arrival times agree in date, hour, minute and second
SameSecond(a, b) == a.date = b.date /\ a.secs = b.secs

\* the store before and after candidate i of a pull that found imgs
Before(imgs, i) == ProcessImgs(StoreOf(files, map_data, hourly, assets), imgs, i - 1)
After(imgs, i) == ProcessImgs(StoreOf(files, map_data, hourly, assets), imgs, i)

\* C23: two arrival times give the same key exactly when they agree to the
\* second; in every pull, a candidate whose key an earlier candidate had (its
\* image was persisted under the key, or the key was processed, in this pull
\* or an earlier one) is treated as processed: it creates no image, no
\* record and no bucket increment
C23_Original ==
    [][pull =>
         /\ \A a, b \in TimeSet :
               datetimeToString(a) = datetimeToString(b) <=> SameSecond(a, b)
         /\ \A i \in 1..Len(images') :
               \E b \in {Before(images', i)} : \E a \in {After(images', i)} :
               \E key \in {datetimeToString(images'[i].lm)} :
                  (key \in b.assets \/ InFiles(b.files, key)) =>
                      /\ a.files = b.files /\ a.map_data = b.map_data
                      /\ a.hourly = b.hourly /\ a.assets = b.assets]_vars

----------------------------------------------------------------------------
(* Claims checked under SpecStore: records, keys and counts *)

RECURSIVE TotalCount(_)
TotalCount(h) == IF h = <<>> THEN 0 ELSE Head(h).Count + TotalCount(Tail(h))

\* C24: after every pull, completed or not, and between pulls, there are as
\* many DetectionRecords as processed keys and the hourly counts add up to
\* the same number; every processed key has exactly one record
C24_Counts ==
    /\ Len(map_data) = Len(files)
    /\ TotalCount(hourly) = Len(files)
    /\ \A k \in 1..Len(files) :
          Cardinality({r \in 1..Len(map_data) : map_data[r].Date = files[k]}) = 1

\* a completed pull of two Frames of different hours: two keys, two records,
\* two buckets of count 1
C24_Witness ==
    /\ status = "ok" /\ pulled >= 1
    /\ Len(files) = 2 /\ Len(map_data) = 2
    /\ Len(hourly) = 2 /\ hourly[1].Count = 1 /\ hourly[2].Count = 1

----------------------------------------------------------------------------
(* Claims checked under Spec: a listing without candidates *)

\* C25: a pull whose scan ends with no candidate returns normally and leaves
\* the processed keys, the records, the hourly buckets, the saved images and
\* the most-recent pointer as they were
C25_Original ==
    [][(pull /\ ~Scan(bucket).err /\ Scan(bucket).images = <<>>) =>
          /\ status' = "ok"
          /\ UNCHANGED store]_vars

----------------------------------------------------------------------------
(* Claims checked under SpecStore: the most-recent pointer *)

\* C26: the most-recent pointer is unset or a processed key under which an
\* image was saved, after completed pulls and after pulls that raised
C26_Pointer ==
    mostRecent # None => (InFiles(files, mostRecent) /\ mostRecent \in assets)

\* the pointer of a completed pull is still a processed key after a later
\* pull raised at a new Frame
C26_Witness ==
    /\ status = "img-error" /\ Len(images) = 2
    /\ mostRecent = datetimeToString(images[1].lm)
    /\ mostRecent # datetimeToString(images[2].lm)
    /\ files = <<mostRecent>>

----------------------------------------------------------------------------
(* Claims checked under SpecAT: stale input *)

\* the chunks of the buffer that arrived after the last write to the channel
Fresh(buf) == SelectSeq(buf, LAMBDA ch : ch.at >= Len(wire))

\* C27: when AT returns 1, the expected text is in what the modem sent after
\* the command was written; bytes that were in the buffer before the write
\* do not make the call return 1
C27_Original ==
    [][(ATRead /\ rets'[Len(rets')] = "1") =>
          /\ wire[Len(wire)].kind = "cmd"
          /\ DecodeOK(Concat(Waiting(Fresh(rx))))
          /\ Contains(decode(Concat(Waiting(Fresh(rx)))), ATCall(spc, cur).back)]_vars

----------------------------------------------------------------------------
(* Claims checked under SpecStore: a candidate that fails *)

\* C28: when the processing of a candidate raises, the store is as it was
\* before that candidate, and an image is saved under a key exactly when the
\* key is processed and has a record
C28_Original ==
    [][pull =>
         /\ \A i \in 1..Len(images') :
               \E b \in {Before(images', i)} : \E a \in {After(images', i)} :
                  (a.err /\ ~b.err) =>
                      /\ a.files = b.files /\ a.map_data = b.map_data
                      /\ a.hourly = b.hourly /\ a.assets = b.assets
         /\ \A key \in assets' :
               /\ InFiles(files', key)
               /\ \E r \in 1..Len(map_data') : map_data'[r].Date = key
         /\ \A k \in 1..Len(files') : files'[k] \in assets']_vars

----------------------------------------------------------------------------
(* Specification SpecMain: main() of the sender from comm.init_checks() to   *)
(* comm.mqtt_disc(), with a modem that answers the waiting command, sends    *)
(* noise, or stays silent                                                    *)

\* for i in range(2)
LoopCount == 2

InitMain ==
    /\ ReceiverInit
    /\ SenderIs([SenderIdle EXCEPT !.spc = "main", !.byte_arr = <<255>>,
                                   !.chunk_size = DefaultChunkSize,
                                   !.headers = MainHeaders])

\* the modem sends the result code of the command that is waiting, or noise
DeviceAnswer ==
    /\ spc \in WaitPositions
    /\ Len(rx) < MaxRx
    /\ \E t \in {Reply(ATCall(spc, cur).back), Noise} :
          rx' = Append(rx, [data |-> t, at |-> Len(wire)])
    /\ UNCHANGED <<spc, byte_arr, chunk_size, headers, msgs, mi, cur, wire, inflight,
                   pubs, lost, rets, w0>>
    /\ UNCHANGED rvars

\* comm.init_checks(), line 122
InitChecks == spc = "main" /\ Enter("chk1_at")

\* comm.ssl_config(), line 123
SslConfig == spc = "checked" /\ Enter("ssl1_at")

\* comm.mqtt_conn(), line 124
MainConn == spc = "configured" /\ Enter("cstart_at")

\* one iteration of the loop of line 135, up to msgs = comm.imgToChunks(img)
LoopFrame ==
    /\ spc \in {"connected", "done"}
    /\ nsent < LoopCount
    /\ nsent' = nsent + 1
    /\ spc' = "start"
    /\ rets' = <<>> /\ w0' = Len(wire)
    /\ UNCHANGED <<byte_arr, chunk_size, headers, msgs, mi, cur, wire, inflight, pubs,
                   lost, rx>>
    /\ UNCHANGED <<bucket, store, status, pulled, images, thr, owner>>

\* MainDisc variant: comm.mqtt_disc() inside the loop body
MainDiscInLoop == spc = "done" /\ Enter("disc_at")

\* comm.mqtt_disc(), line 163, after the loop
MainDisc == spc = "done" /\ nsent = LoopCount /\ Enter("disc_at")

NextMain == DeviceAnswer \/ InitChecks \/ SslConfig \/ MainConn \/ LoopFrame
            \/ CallImgToChunks \/ SendImgStart \/ ATWrite \/ ATRead \/ SerWrite
            \/ PubReturn \/ MainDisc

SpecMain == InitMain /\ [][NextMain]_vars

----------------------------------------------------------------------------
(* Claims checked under SpecMain *)

\* the commands of init_checks, ssl_config and one mqtt_pub, in call order
CheckCmds == <<"CPIN?", "CGMM", "CGMR", "GSN", "COPS?", "CSQ", "CPSI?", "CGREG",
               "CGACT?", "CGPADDR">>
SslCmds == <<"CCERTLIST", "CSSLCFG sslversion", "CSSLCFG authmode", "CSSLCFG cacert",
             "CSSLCFG clientcert", "CSSLCFG clientkey">>
PubCmds == <<"CMQTTTOPIC", "CMQTTPAYLOAD", "CMQTTPUB">>

\* the publishes of one Frame of the run: Start, the chunks, End
FramePubs == SendImgPubs(imgToChunks(byte_arr, chunk_size), headers)

RECURSIVE Times(_, _)
Times(q, n) == IF n = 0 THEN <<>> ELSE q \o Times(q, n - 1)

\* the commands of a whole run
FullRun == CheckCmds \o SslCmds \o ConnCmds
           \o Times(PubCmds, LoopCount * Len(FramePubs)) \o DiscCmds

\* C29: at every point of the main run the commands written so far are a
\* prefix of: the checks, the TLS configuration, the connect sequence, the
\* publishes of Frame 1 from Start to End, those of Frame 2, the disconnect
\* sequence; the publishes made are a prefix of Frame 1's followed by Frame
\* 2's; and a run that reaches its end has written all of them
C29_RunOrder ==
    /\ IsPrefix(CmdsSince(wire, 0), FullRun)
    /\ IsPrefix([k \in 1..Len(pubs) |-> pubs[k].payload], Times(FramePubs, LoopCount))
    /\ spc \in DiscPositions \cup {"off"} => Len(pubs) = LoopCount * Len(FramePubs)
    /\ spc = "off" => CmdsSince(wire, 0) = FullRun

\* the run has ended after two Frames, although the modem did not answer the
\* release command
C29_Witness ==
    /\ spc = "off" /\ nsent = LoopCount
    /\ Len(pubs) = 6 /\ pubs[4].payload = StartToken(MainHeaders)
    /\ CmdsSince(wire, 0) = FullRun
    /\ rets = <<"1", "None", "1">>

----------------------------------------------------------------------------
(* C30: the Start token of main() against the scanner's guard *)

\* the fields the scanner gets from the Start token of main(): the time keeps
\* the quotes of its repr, the six values after it keep the blank of ", "
MainFields == <<DecStr(1), DecStr(2), DecStr(3), <<"'", "t", "'">>,
                <<" ">> \o DecStr(5), <<" ">> \o DecStr(6), <<" ">> \o DecStr(7),
                <<" ">> \o DecStr(8), <<" ">> \o DecStr(9), <<" ">> \o DecStr(4)>>

\* the Frame of this run is whole in the bucket
FrameStored == spc = "done" /\ ~lost /\ Len(bucket) = Len(pubs)

\* C30: the Start token mqtt_sendimg builds from [lat, lon, count, envs] is
\* parsed by the scanner into exactly the 10 fields lat, lon, count, time,
\* temp, humidity, pressure, pitch, roll, yaw, in this order, so a pull of
\* the whole Frame makes it a candidate with these fields and, when its
\* bytes are an image, stores its record; the Start token built from
\* [lat, lon, count] is parsed into 3 fields and no pull makes a candidate
\* of its Frame
C30_StartFields ==
    /\ headers = MainHeaders =>
          /\ \A i \in 1..Len(bucket) : IsStart(bucket[i]) =>
                 /\ bucket[i].body = StartToken(MainHeaders)
                 /\ FieldsOf(bucket[i]) = MainFields
                 /\ Len(FieldsOf(bucket[i])) = MinFields
          /\ (FrameStored /\ pulled > 0) =>
                 /\ Len(images) = 1
                 /\ images[1].metadata = MainFields
                 /\ images[1].arr = byte_arr
          /\ (FrameStored /\ pulled > 0 /\ ImageOpenOK(byte_arr)) =>
                 /\ status = "ok"
                 /\ Len(map_data) = 1
                 /\ map_data[1].lat = 1 /\ map_data[1].lon = 2
                 /\ map_data[1].clusters = 3 /\ map_data[1].temp = 5
                 /\ map_data[1].humidity = 6 /\ map_data[1].pressure = 7
                 /\ map_data[1].pitch = 8 /\ map_data[1].roll = 9
                 /\ map_data[1].yaw = 4
    /\ headers = FieldsShort =>
          /\ \A i \in 1..Len(bucket) : IsStart(bucket[i]) =>
                 /\ bucket[i].body = StartToken(FieldsShort)
                 /\ FieldsOf(bucket[i]) = <<DecStr(1), DecStr(2), DecStr(3)>>
          /\ images = <<>>
          /\ files = <<>> /\ map_data = <<>>

\* a whole Frame of main() has been pulled and is a candidate
C30_Witness ==
    /\ headers = MainHeaders /\ FrameStored /\ pulled > 0 /\ ImageOpenOK(byte_arr)
    /\ Len(images) = 1 /\ Len(images[1].metadata) = MinFields
    /\ Len(map_data) = 1

\* a whole Frame with the three-field Start token has been pulled and dropped
C30_WitnessShort ==
    /\ headers = FieldsShort /\ FrameStored /\ pulled > 0 /\ byte_arr # <<>>
    /\ images = <<>>

====
